---- MODULE Spec2Model ----
(***************************************************************************)
(* Model of the comparison/scoring engine of dashboard.py (the "VLM        *)
(* comparison dashboard"): the table shaper (sort_by_category), the        *)
(* candidate de-duplication (remove_duplicates), the missing-item          *)
(* synthesis (add_missing_items), the accuracy computation                 *)
(* (calculate_accuracy) with its matcher predicates, and the cached        *)
(* loading done by main() / load_data().                                   *)
(*                                                                         *)
(* A text is a sequence of one-character strings, so that str.strip,       *)
(* str.lower, str.replace, str.split and str.rstrip are modelled by what   *)
(* they do to the characters.  A table (DataFrame) is a sequence of row    *)
(* records; a dict is a sequence of key/value records in insertion order.  *)
(***************************************************************************)
EXTENDS Integers, Sequences, FiniteSets, TLC

(***************************************************************************)
(* Python string primitives                                                *)
(***************************************************************************)
UpperChars ==
  <<"A","B","C","D","E","F","G","H","I","J","K","L","M",
    "N","O","P","Q","R","S","T","U","V","W","X","Y","Z">>

LowerChars ==
  <<"a","b","c","d","e","f","g","h","i","j","k","l","m",
    "n","o","p","q","r","s","t","u","v","w","x","y","z">>

\* The characters of the model in code-point order (str comparison in sort_values).
Ascii ==
  <<" ", ",", "-", "/">> \o UpperChars \o <<"_">> \o LowerChars

CharCode(c) == CHOOSE i \in 1..Len(Ascii) : Ascii[i] = c

\* A list comprehension: the function as an evaluated sequence.
List(f) == f \o <<>>

UpperSet == {UpperChars[i] : i \in 1..Len(UpperChars)}

LowerChar(c) ==
  IF c \in UpperSet
  THEN LowerChars[CHOOSE i \in 1..Len(UpperChars) : UpperChars[i] = c]
  ELSE c

\* str.lower()
Lower(s) == List([i \in 1..Len(s) |-> LowerChar(s[i])])

\* str.strip(): drop leading and trailing whitespace
Strip(s) ==
  LET idx == {i \in 1..Len(s) : s[i] # " "}
  IN  IF idx = {} THEN <<>>
      ELSE LET lo == CHOOSE i \in idx : \A j \in idx : i <= j
               hi == CHOOSE i \in idx : \A j \in idx : i >= j
           IN  SubSeq(s, lo, hi)

\* .replace('-', '').replace(' ', '').replace('_', '')
RemoveSeps(s) == SelectSeq(s, LAMBDA c : c \notin {"-", " ", "_"})

\* str.rstrip('s'): drop every trailing 's'
RStripS(s) ==
  LET idx == {i \in 1..Len(s) : s[i] # "s"}
  IN  IF idx = {} THEN <<>>
      ELSE SubSeq(s, 1, CHOOSE i \in idx : \A j \in idx : i >= j)

\* str.split(sep): the parts between the separators, empty parts included
RECURSIVE SplitOn(_, _)
SplitOn(s, sep) ==
  LET idx == {i \in 1..Len(s) : s[i] = sep}
  IN  IF idx = {} THEN <<s>>
      ELSE LET k == CHOOSE i \in idx : \A j \in idx : i <= j
           IN  <<SubSeq(s, 1, k - 1)>> \o SplitOn(SubSeq(s, k + 1, Len(s)), sep)

\* str.split(): the maximal runs of non-whitespace characters
SplitWs(s) == SelectSeq(SplitOn(s, " "), LAMBDA w : w # <<>>)

\* lexicographic str comparison a < b
RECURSIVE StrLess(_, _)
StrLess(a, b) ==
  IF b = <<>> THEN FALSE
  ELSE IF a = <<>> THEN TRUE
  ELSE IF a[1] # b[1] THEN CharCode(a[1]) < CharCode(b[1])
  ELSE StrLess(Tail(a), Tail(b))

Range(s) == {s[i] : i \in 1..Len(s)}

(***************************************************************************)
(* Normalizer                                                              *)
(***************************************************************************)
\* add_missing_items.normalize_for_compare
normalize_for_compare(text) ==
  IF text = <<>> THEN <<>> ELSE RemoveSeps(Lower(Strip(text)))

\* remove_duplicates.normalize_for_dedup
normalize_for_dedup(text) ==
  IF text = <<>> THEN <<>> ELSE RemoveSeps(Lower(Strip(text)))

\* a normalizer that keeps underscores
normalize_text_keep_underscore(text) ==
  IF text = <<>> THEN <<>>
  ELSE SelectSeq(Lower(Strip(text)), LAMBDA c : c \notin {"-", " "})

\* normalize_text
normalize_text(text) ==
  IF text = <<>> THEN <<>> ELSE RemoveSeps(Lower(Strip(text)))

\* word_level_match.normalize_word
normalize_word(word) == RemoveSeps(Lower(Strip(word)))

\* [v.strip().lower() for v in str(x).split(',')]
LowerStripAll(parts) == List([i \in 1..Len(parts) |-> Lower(Strip(parts[i]))])

CommaValues(x) == LowerStripAll(SplitOn(x, ","))

(***************************************************************************)
(* Fuzzy matcher                                                           *)
(***************************************************************************)
\* the set words1 / words2 built by word_level_match from the comma values
word_level_set(vals) ==
  UNION {
    ({normalize_word(w) : w \in Range(SplitWs(vals[i]))}
       \cup {normalize_word(vals[i])}) \ {<<>>}
    : i \in 1..Len(vals) }

word_level_words(val) == word_level_set(CommaValues(val))

\* a one-sided variant: every word of val1 is a word of val2
word_level_match_contained(val1, val2) ==
  IF val1 = <<>> \/ val2 = <<>> THEN FALSE
  ELSE word_level_words(val1) # {} /\ word_level_words(val1) \subseteq word_level_words(val2)

word_level_match(val1, val2) ==
  IF val1 = <<>> \/ val2 = <<>> THEN FALSE
  ELSE (word_level_words(val1) \cap word_level_words(val2)) # {}

\* the set words1 / words2 built by fuzzy_match_subcat from the comma values
fuzzy_subcat_set(vals) ==
  UNION {
    {RStripS(normalize_text(w)) : w \in Range(SplitWs(vals[i]))} \ {<<>>}
    : i \in 1..Len(vals) }

fuzzy_subcat_words(subcat) == fuzzy_subcat_set(CommaValues(subcat))

fuzzy_match_subcat(subcat1, subcat2) ==
  IF subcat1 = <<>> \/ subcat2 = <<>> THEN FALSE
  ELSE (fuzzy_subcat_words(subcat1) \cap fuzzy_subcat_words(subcat2)) # {}

\* the set words1 / words2 built by add_missing_items.match_cat_words
cat_word_set(vals) ==
  UNION {
    {RStripS(normalize_for_compare(w)) : w \in Range(SplitWs(vals[i]))} \ {<<>>}
    : i \in 1..Len(vals) }

cat_words(cat) == cat_word_set(CommaValues(cat))

match_cat_words(cat1, cat2) ==
  IF cat1 = <<>> \/ cat2 = <<>> THEN FALSE
  ELSE IF Strip(cat1) = <<>> \/ Strip(cat2) = <<>> THEN FALSE
  ELSE (cat_words(cat1) \cap cat_words(cat2)) # {}

\* the set words1 / words2 built by add_missing_items.match_subcat_words
subcat_word_set(vals) ==
  UNION {
    ({RStripS(normalize_for_compare(w)) : w \in Range(SplitWs(vals[i]))}
       \cup {RStripS(normalize_for_compare(vals[i]))}) \ {<<>>}
    : i \in 1..Len(vals) }

subcat_words(subcat) == subcat_word_set(CommaValues(subcat))

match_subcat_words(subcat1, subcat2) ==
  IF subcat1 = <<>> \/ subcat2 = <<>> THEN FALSE
  ELSE IF Strip(subcat1) = <<>> \/ Strip(subcat2) = <<>> THEN FALSE
  ELSE (subcat_words(subcat1) \cap subcat_words(subcat2)) # {}

(***************************************************************************)
(* Tables.  A row carries the four data columns and the hidden columns     *)
(* _cat_for_match, _subcat_for_match, _is_missing, _is_key_only_missing;   *)
(* a hidden column that is absent or NaN is the empty text (every reader   *)
(* in the code goes through fillna('') or row.get(..., default)).          *)
(***************************************************************************)
Row(cat, subcat, key, value) ==
  [Cat |-> cat, Subcat |-> subcat, Key |-> key, Value |-> value,
   cat_for_match |-> <<>>, subcat_for_match |-> <<>>,
   is_missing |-> <<>>, is_key_only_missing |-> <<>>]

\* the cell values clean_none_values replaces by ''
NoneTexts ==
  { <<"N","o","n","e">>, <<"n","o","n","e">>, <<"n","a","n">>, <<"N","a","N">>,
    <<"N","/","A">>, <<"n","/","a">>, <<"n","u","l","l">>, <<"N","U","L","L">>,
    <<"/">> }

clean_cell(c) == IF c \in NoneTexts THEN <<>> ELSE Lower(c)

clean_none_values(df) ==
  List([i \in 1..Len(df) |->
     [Cat |-> clean_cell(df[i].Cat), Subcat |-> clean_cell(df[i].Subcat),
      Key |-> clean_cell(df[i].Key), Value |-> clean_cell(df[i].Value),
      cat_for_match |-> clean_cell(df[i].cat_for_match),
      subcat_for_match |-> clean_cell(df[i].subcat_for_match),
      is_missing |-> clean_cell(df[i].is_missing),
      is_key_only_missing |-> clean_cell(df[i].is_key_only_missing)]])

first_of_commas(text_str) ==
  IF "," \in Range(text_str) THEN Strip(SplitOn(text_str, ",")[1]) ELSE text_str

get_first_value(text) ==
  IF text = <<>> THEN <<>> ELSE first_of_commas(Strip(text))

\* a text as a TLA+ string (the keys of cat_order are written as strings)
RECURSIVE Str(_)
Str(s) == IF s = <<>> THEN "" ELSE s[1] \o Str(Tail(s))

cat_order ==
  [c \in {"age group", "color tone filter", "coordination method", "gender",
          "skin tone", "pose", "hair style", "expression", "gaze direction",
          "fashion style", "location", "mood", "number of people",
          "overall fashion color tone", "season weather", "shooting composition",
          "outer", "inner", "bottom", "shoes", "bag", "accessories", "neckwear",
          "headwear", "eyewear", "hosiery", "onepiece", "swimwear"} |->
     CASE c = "age group" -> 1 [] c = "color tone filter" -> 2
       [] c = "coordination method" -> 3 [] c = "gender" -> 4
       [] c = "skin tone" -> 5 [] c = "pose" -> 6 [] c = "hair style" -> 7
       [] c = "expression" -> 8 [] c = "gaze direction" -> 9
       [] c = "fashion style" -> 10 [] c = "location" -> 11 [] c = "mood" -> 12
       [] c = "number of people" -> 13 [] c = "overall fashion color tone" -> 14
       [] c = "season weather" -> 15 [] c = "shooting composition" -> 16
       [] c = "outer" -> 20 [] c = "inner" -> 21 [] c = "bottom" -> 22
       [] c = "shoes" -> 23 [] c = "bag" -> 24 [] c = "accessories" -> 25
       [] c = "neckwear" -> 26 [] c = "headwear" -> 27 [] c = "eyewear" -> 28
       [] c = "hosiery" -> 29 [] c = "onepiece" -> 30 [] c = "swimwear" -> 31]

get_cat_order(cat_val) ==
  LET cat_lower == Str(Lower(Strip(cat_val)))
  IN  IF cat_lower \in DOMAIN cat_order THEN cat_order[cat_lower] ELSE 100

\* Series.replace('', pd.NA).ffill().fillna('')
FFill(col) ==
  LET F[i \in 0..Len(col)] ==
        IF i = 0 THEN <<>> ELSE IF col[i] # <<>> THEN col[i] ELSE F[i - 1]
  IN  List([i \in 1..Len(col) |-> F[i]])

\* the sort key with product rows before marketing rows
SortKeyLess_product_first(a, b) ==
  IF a.cat_order # b.cat_order THEN a.cat_order < b.cat_order
  ELSE IF a.is_marketing # b.is_marketing THEN a.is_marketing < b.is_marketing
  ELSE IF a.subcat_lower # b.subcat_lower THEN StrLess(a.subcat_lower, b.subcat_lower)
  ELSE StrLess(a.key_lower, b.key_lower)

\* the sort key of sort_values(['_cat_order', '_is_marketing', '_subcat_lower',
\* '_key_lower'], ascending=[True, False, True, True])
SortKeyLess(a, b) ==
  IF a.cat_order # b.cat_order THEN a.cat_order < b.cat_order
  ELSE IF a.is_marketing # b.is_marketing THEN a.is_marketing > b.is_marketing
  ELSE IF a.subcat_lower # b.subcat_lower THEN StrLess(a.subcat_lower, b.subcat_lower)
  ELSE StrLess(a.key_lower, b.key_lower)

\* the permutation of a stable sort: rows with equal keys keep their order
StableOrder(keys) ==
  LET n == Len(keys)
      before(j, i) == SortKeyLess(keys[j], keys[i])
                        \/ (~SortKeyLess(keys[i], keys[j]) /\ j < i)
      rank(i) == 1 + Cardinality({j \in 1..n : j # i /\ before(j, i)})
  IN  List([p \in 1..n |-> CHOOSE i \in 1..n : rank(i) = p])

\* the rows in sorted order with the labels left on every row
regroup_labels_kept(df0, cat_filled, subcat_filled, perm) ==
  List([p \in 1..Len(df0) |->
     [Cat |-> cat_filled[perm[p]],
      Subcat |-> IF df0[perm[p]].Key = <<>> THEN <<>> ELSE subcat_filled[perm[p]],
      Key |-> df0[perm[p]].Key,
      Value |-> df0[perm[p]].Value,
      cat_for_match |-> cat_filled[perm[p]],
      subcat_for_match |-> subcat_filled[perm[p]],
      is_missing |-> df0[perm[p]].is_missing,
      is_key_only_missing |-> df0[perm[p]].is_key_only_missing]])

\* steps 3-5 of sort_by_category: the rows in sorted order, the labels kept on
\* the first row of each (Cat, Subcat) run, the filled values kept hidden
regroup(df0, cat_filled, subcat_filled, perm) ==
  LET same(p) == p > 1 /\ cat_filled[perm[p]] = cat_filled[perm[p - 1]]
                       /\ subcat_filled[perm[p]] = subcat_filled[perm[p - 1]]
  IN  List([p \in 1..Len(df0) |->
         [Cat |-> IF same(p) THEN <<>> ELSE cat_filled[perm[p]],
          Subcat |-> IF same(p) \/ df0[perm[p]].Key = <<>>
                     THEN <<>> ELSE subcat_filled[perm[p]],
          Key |-> df0[perm[p]].Key,
          Value |-> df0[perm[p]].Value,
          cat_for_match |-> cat_filled[perm[p]],
          subcat_for_match |-> subcat_filled[perm[p]],
          is_missing |-> df0[perm[p]].is_missing,
          is_key_only_missing |-> df0[perm[p]].is_key_only_missing]])

\* the sort keys of the rows
sort_keys(df0, cat_filled, subcat_filled) ==
  List([i \in 1..Len(df0) |->
     [cat_order |-> IF cat_filled[i] # <<>>
                    THEN get_cat_order(cat_filled[i]) ELSE 999,
      is_marketing |-> IF df0[i].Key = <<>> THEN 1 ELSE 0,
      subcat_lower |-> Lower(subcat_filled[i]),
      key_lower |-> Lower(df0[i].Key)]])

sort_filled(df0, cat_filled, subcat_filled) ==
  regroup(df0, cat_filled, subcat_filled,
          StableOrder(sort_keys(df0, cat_filled, subcat_filled)))

\* step 2: _cat_filled and _subcat_filled, the latter blank on marketing rows
fill_columns(df0, cat_ffill, subcat_ffill) ==
  sort_filled(df0, cat_ffill,
              List([i \in 1..Len(df0) |->
                 IF df0[i].Key = <<>> THEN <<>> ELSE subcat_ffill[i]]))

sort_cleaned(df0) ==
  fill_columns(df0,
               FFill(List([i \in 1..Len(df0) |-> get_first_value(df0[i].Cat)])),
               FFill(List([i \in 1..Len(df0) |-> get_first_value(df0[i].Subcat)])))

sort_by_category(df_raw) == sort_cleaned(clean_none_values(df_raw))

DedupKey(r) ==
  <<normalize_for_dedup(r.cat_for_match), normalize_for_dedup(r.subcat_for_match),
    normalize_for_dedup(r.Key)>>

\* remove_duplicates keeping every row
remove_duplicates_keep_all(vlm_df) == vlm_df

\* drop_duplicates(subset=[...], keep='first')
remove_duplicates(vlm_df) ==
  IF Len(vlm_df) = 0 THEN vlm_df
  ELSE LET keep == {i \in 1..Len(vlm_df) :
                      \A j \in 1..(i - 1) : DedupKey(vlm_df[j]) # DedupKey(vlm_df[i])}
           F[i \in 0..Len(vlm_df)] ==
             IF i = 0 THEN <<>>
             ELSE IF i \in keep THEN Append(F[i - 1], vlm_df[i]) ELSE F[i - 1]
       IN  F[Len(vlm_df)]

(***************************************************************************)
(* Missing-item synthesis                                                  *)
(***************************************************************************)
\* one entry of vlm_items_list
vlm_item(cat_orig, subcat_orig, key) ==
  [cat |-> normalize_for_compare(cat_orig), cat_orig |-> cat_orig,
   subcat |-> normalize_for_compare(subcat_orig), subcat_orig |-> subcat_orig,
   key |-> normalize_for_compare(key)]

VlmItem(row) ==
  vlm_item(Lower(Strip(row.cat_for_match)), Lower(Strip(row.subcat_for_match)),
           row.Key)

vlm_items_list(vlm_df) ==
  SelectSeq(List([i \in 1..Len(vlm_df) |-> VlmItem(vlm_df[i])]),
            LAMBDA it : it.cat # <<>> \/ it.key # <<>>)

\* the synthetic row and whether it is appended, once the search of one
\* iteration of the loop over fnf_df is over
missing_row(row, cat_orig, subcat_orig, key, has_same_cat, matching_vlm_subcats, found_match) ==
  LET is_marketing == key = <<>>
      is_key_only_missing ==
        ~is_marketing /\ matching_vlm_subcats # <<>> /\ ~found_match /\ has_same_cat
      is_valid_item == normalize_for_compare(cat_orig) # <<>>
                         /\ (is_marketing \/ key # <<>>)
      skipped == ~is_marketing /\ has_same_cat /\ matching_vlm_subcats = <<>>
                   /\ normalize_for_compare(subcat_orig) # <<>>
      use_vlm_subcat == is_key_only_missing /\ matching_vlm_subcats # <<>>
  IN  [triple |-> <<normalize_for_compare(cat_orig),
                    normalize_for_compare(subcat_orig), key>>,
       add |-> ~found_match /\ is_valid_item /\ ~skipped,
       row |-> [Cat |-> IF Strip(row.Cat) = <<>> THEN cat_orig ELSE row.Cat,
                Subcat |-> IF use_vlm_subcat THEN matching_vlm_subcats[1].subcat_orig
                           ELSE IF Strip(row.Subcat) = <<>> THEN subcat_orig
                           ELSE row.Subcat,
                Key |-> row.Key,
                Value |-> <<>>,
                cat_for_match |-> cat_orig,
                subcat_for_match |-> IF use_vlm_subcat
                                     THEN matching_vlm_subcats[1].subcat_orig
                                     ELSE subcat_orig,
                is_missing |-> <<"T","r","u","e">>,
                is_key_only_missing |-> IF is_key_only_missing
                                        THEN <<"T","r","u","e">>
                                        ELSE <<"F","a","l","s","e">>]]

\* find_key without the search for the key among the matching items
find_key_without_key_test(row, cat_orig, subcat_orig, key, has_same_cat, matching_vlm_subcats) ==
  missing_row(row, cat_orig, subcat_orig, key, has_same_cat, matching_vlm_subcats,
              key = <<>> /\ has_same_cat)

\* found_match of the iteration
find_key(row, cat_orig, subcat_orig, key, has_same_cat, matching_vlm_subcats) ==
  missing_row(row, cat_orig, subcat_orig, key, has_same_cat, matching_vlm_subcats,
              IF key = <<>> THEN has_same_cat
              ELSE \E i \in 1..Len(matching_vlm_subcats) :
                     matching_vlm_subcats[i].key = key)

\* has_same_cat and matching_vlm_subcats of the iteration
find_match(items, row, cat_orig, subcat_orig, key) ==
  find_key(row, cat_orig, subcat_orig, key,
           IF key = <<>>
           THEN \E i \in 1..Len(items) :
                  match_cat_words(cat_orig, items[i].cat_orig) /\ items[i].key = <<>>
           ELSE \E i \in 1..Len(items) : match_cat_words(cat_orig, items[i].cat_orig),
           IF key = <<>> THEN <<>>
           ELSE SelectSeq(items, LAMBDA it :
                  match_cat_words(cat_orig, it.cat_orig)
                  /\ match_subcat_words(subcat_orig, it.subcat_orig)))

\* What one iteration of the loop over fnf_df decides for a ground-truth row:
\* whether a synthetic row is appended, and which one.
MissingDecision(items, row) ==
  find_match(items, row, Lower(Strip(row.cat_for_match)),
             Lower(Strip(row.subcat_for_match)),
             normalize_for_compare(Lower(Strip(row.Key))))

\* the effect of one iteration on missing_rows and added_items
missing_step(state, d) ==
  IF d.triple \in state.added_items THEN state
  ELSE IF d.add
       THEN [rows |-> Append(state.rows, d.row),
             added_items |-> state.added_items \cup {d.triple}]
       ELSE state

missing_loop(items, fnf_df) ==
  LET F[i \in 0..Len(fnf_df)] ==
        IF i = 0 THEN [rows |-> <<>>, added_items |-> {}]
        ELSE missing_step(F[i - 1], MissingDecision(items, fnf_df[i]))
  IN  F[Len(fnf_df)].rows

\* missing_rows after the loop over fnf_df (added_items suppresses repeats)
missing_rows(vlm_df, fnf_df) == missing_loop(vlm_items_list(vlm_df), fnf_df)

\* lines 783-787: the table is re-sorted when rows were added
concat_missing(vlm_df, rows) ==
  IF rows # <<>> THEN sort_by_category(vlm_df \o rows) ELSE vlm_df

add_missing_items(vlm_df, fnf_df) ==
  concat_missing(vlm_df, missing_rows(vlm_df, fnf_df))

(***************************************************************************)
(* Exact rationals for the accuracy percentages: <<numerator, denominator>> *)
(* in lowest terms with a positive denominator (the code computes them in  *)
(* floating point).                                                        *)
(***************************************************************************)
RECURSIVE GCD(_, _)
GCD(a, b) == IF b = 0 THEN a ELSE GCD(b, a % b)

Frac(n, d) == LET g == GCD(n, d) IN IF n = 0 THEN <<0, 1>> ELSE <<n \div g, d \div g>>

RatMul(x, y) == Frac(x[1] * y[1], x[2] * y[2])

RatAdd(x, y) == Frac(x[1] * y[2] + y[1] * x[2], x[2] * y[2])

(***************************************************************************)
(* Python dicts: key/value records in insertion order; assigning to an     *)
(* existing key keeps its position and replaces its value.                 *)
(***************************************************************************)
DictHas(d, k) == \E i \in 1..Len(d) : d[i].k = k

DictGet(d, k, default) ==
  IF DictHas(d, k) THEN d[CHOOSE i \in 1..Len(d) : d[i].k = k].v ELSE default

DictSet(d, k, v) ==
  IF DictHas(d, k)
  THEN List([i \in 1..Len(d) |-> IF d[i].k = k THEN [k |-> k, v |-> v] ELSE d[i]])
  ELSE Append(d, [k |-> k, v |-> v])

DictSetDefault(d, k, v) == IF DictHas(d, k) THEN d ELSE Append(d, [k |-> k, v |-> v])

Min(S) == CHOOSE i \in S : \A j \in S : i <= j

first_value(d, idx) == IF idx = {} THEN <<>> ELSE d[Min(idx)].v

(***************************************************************************)
(* Accuracy computation                                                    *)
(***************************************************************************)
\* the four stripped, lower-cased cells read from a row
Cells(row) ==
  [cat |-> Lower(Strip(row.cat_for_match)),
   subcat |-> Lower(Strip(row.subcat_for_match)),
   key |-> Lower(Strip(row.Key)),
   val |-> Lower(Strip(row.Value))]

\* vlm_put without the assignment to the (cat, key) entry
vlm_put_without_cat_key(lookup, c) ==
  DictSet(lookup, <<c.cat, c.subcat, c.key>>, c.val)

\* vlm_lookup[(cat, subcat, key)] = val; vlm_lookup[(cat, key)] = val
vlm_put(lookup, c) ==
  DictSet(DictSet(lookup, <<c.cat, c.subcat, c.key>>, c.val), <<c.cat, c.key>>, c.val)

\* step 1 of calculate_accuracy: vlm_lookup, the last row of a key winning
vlm_lookup_of(vlm_df) ==
  LET F[i \in 0..Len(vlm_df)] ==
        IF i = 0 THEN <<>> ELSE vlm_put(F[i - 1], Cells(vlm_df[i]))
  IN  F[Len(vlm_df)]

\* the two assignments guarded by `not in fnf_lookup`, for a row with a value
fnf_put(lookup, c) ==
  IF c.val = <<>> \/ c.val = <<"n","a","n">> THEN lookup
  ELSE DictSetDefault(DictSetDefault(lookup, <<c.cat, c.subcat, c.key>>, c.val),
                      <<c.cat, c.key>>, c.val)

\* fnf_lookup built in main: rows with a value only, the first row of a key winning
fnf_lookup_of(fnf_df) ==
  LET F[i \in 0..Len(fnf_df)] ==
        IF i = 0 THEN <<>> ELSE fnf_put(F[i - 1], Cells(fnf_df[i]))
  IN  F[Len(fnf_df)]

\* the keys of the marketing search: (cat, '') with a word-matching category
marketing_hit(c, k) ==
  Len(k) = 2 /\ k[2] = <<>> /\ word_level_match(c.cat, k[1])

\* the keys of the product search: (cat, subcat, key) with a word-matching
\* category, the same key and a compatible subcategory
product_hit(c, k) ==
  /\ Len(k) = 3 /\ word_level_match(c.cat, k[1]) /\ k[3] = c.key
  /\ (c.subcat = <<>> \/ k[2] = <<>> \/ fuzzy_match_subcat(c.subcat, k[2]))

\* the search by word-matching category when the exact keys gave nothing: the
\* value of the first item (in iteration order) that is hit, '' if none
relaxed_value(lookup, c, exact) ==
  IF exact # <<>> THEN exact
  ELSE IF c.key = <<>>
  THEN first_value(lookup, {i \in 1..Len(lookup) : marketing_hit(c, lookup[i].k)})
  ELSE first_value(lookup, {i \in 1..Len(lookup) : product_hit(c, lookup[i].k)})

\* the value found in `lookup` for the cells c of a row of the other table
\* (used with vlm_lookup for step 2 and, mirrored, with fnf_lookup for step 3)
LookupValue(lookup, c) ==
  relaxed_value(lookup, c,
                DictGet(lookup, <<c.cat, c.subcat, c.key>>,
                        DictGet(lookup, <<c.cat, c.key>>, <<>>)))

\* the subcategory of the first candidate row of idx does not match
subcat_differs(vs, idx, f) ==
  /\ idx # {}
  /\ vs[Min(idx)].subcat # <<>>
  /\ ~fuzzy_match_subcat(vs[Min(idx)].subcat, f.subcat)

\* the subcategory check of step 2 for a ground-truth product row, vs being
\* the cells of the rows of vlm_df
SubcatError(vs, f, v_val) ==
  /\ f.cat # <<>> /\ f.subcat # <<>> /\ f.key # <<>> /\ v_val # <<>>
  /\ subcat_differs(vs, {i \in 1..Len(vs) :
                           word_level_match(f.cat, vs[i].cat) /\ vs[i].key = f.key}, f)

\* Score with the two weights of product_acc exchanged
Score_swapped_weights(marketing_match, marketing_total, product_match, product_total, subcat_errors) ==
  LET value_acc == IF product_total > 0
                   THEN RatMul(Frac(product_match, product_total), <<100, 1>>)
                   ELSE <<0, 1>>
      subcat_acc == IF product_total > 0
                    THEN RatMul(Frac(product_total - subcat_errors, product_total),
                                <<100, 1>>)
                    ELSE <<0, 1>>
  IN  [marketing_acc |-> IF marketing_total > 0
                         THEN RatMul(Frac(marketing_match, marketing_total), <<100, 1>>)
                         ELSE <<0, 1>>,
       value_acc |-> value_acc,
       subcat_acc |-> subcat_acc,
       product_acc |-> IF product_total > 0
                       THEN RatAdd(RatMul(value_acc, Frac(4, 10)),
                                   RatMul(subcat_acc, Frac(6, 10)))
                       ELSE <<0, 1>>]

\* Score with "no error counted" read as full marks when there is nothing to score
Score_full_marks_on_empty(marketing_match, marketing_total, product_match, product_total, subcat_errors) ==
  LET value_acc == IF product_total > 0
                   THEN RatMul(Frac(product_match, product_total), <<100, 1>>)
                   ELSE <<0, 1>>
      subcat_acc == IF product_total > 0
                    THEN RatMul(Frac(product_total - subcat_errors, product_total),
                                <<100, 1>>)
                    ELSE <<100, 1>>
  IN  [marketing_acc |-> IF marketing_total > 0
                         THEN RatMul(Frac(marketing_match, marketing_total), <<100, 1>>)
                         ELSE <<100, 1>>,
       value_acc |-> value_acc,
       subcat_acc |-> subcat_acc,
       product_acc |-> RatAdd(RatMul(value_acc, Frac(6, 10)),
                              RatMul(subcat_acc, Frac(4, 10)))]

\* Score with weights 0.6 and 0.6, which do not add up to one
Score_weights_over_one(marketing_match, marketing_total, product_match, product_total, subcat_errors) ==
  LET value_acc == IF product_total > 0
                   THEN RatMul(Frac(product_match, product_total), <<100, 1>>)
                   ELSE <<0, 1>>
      subcat_acc == IF product_total > 0
                    THEN RatMul(Frac(product_total - subcat_errors, product_total),
                                <<100, 1>>)
                    ELSE <<0, 1>>
  IN  [marketing_acc |-> IF marketing_total > 0
                         THEN RatMul(Frac(marketing_match, marketing_total), <<100, 1>>)
                         ELSE <<0, 1>>,
       value_acc |-> value_acc,
       subcat_acc |-> subcat_acc,
       product_acc |-> IF product_total > 0
                       THEN RatAdd(RatMul(value_acc, Frac(6, 10)),
                                   RatMul(subcat_acc, Frac(6, 10)))
                       ELSE <<0, 1>>]

\* the percentages computed from the counts (lines 945-956)
Score(marketing_match, marketing_total, product_match, product_total, subcat_errors) ==
  LET value_acc == IF product_total > 0
                   THEN RatMul(Frac(product_match, product_total), <<100, 1>>)
                   ELSE <<0, 1>>
      subcat_acc == IF product_total > 0
                    THEN RatMul(Frac(product_total - subcat_errors, product_total),
                                <<100, 1>>)
                    ELSE <<0, 1>>
  IN  [marketing_acc |-> IF marketing_total > 0
                         THEN RatMul(Frac(marketing_match, marketing_total), <<100, 1>>)
                         ELSE <<0, 1>>,
       value_acc |-> value_acc,
       subcat_acc |-> subcat_acc,
       product_acc |-> IF product_total > 0
                       THEN RatAdd(RatMul(value_acc, Frac(6, 10)),
                                   RatMul(subcat_acc, Frac(4, 10)))
                       ELSE <<0, 1>>]

\* the record returned by calculate_accuracy
accuracy_record(vs, extra, marketing_match, marketing_total, product_match, product_total, subcat_errors, score) ==
  [marketing_acc |-> score.marketing_acc,
   marketing_match |-> marketing_match,
   marketing_total |-> marketing_total,
   marketing_extra |-> Cardinality({i \in 1..Len(vs) : extra[i] /\ vs[i].key = <<>>}),
   product_acc |-> score.product_acc,
   value_acc |-> score.value_acc,
   subcat_acc |-> score.subcat_acc,
   product_match |-> product_match,
   product_total |-> product_total,
   product_extra |-> Cardinality({i \in 1..Len(vs) : extra[i] /\ vs[i].key # <<>>}),
   subcat_errors |-> subcat_errors,
   has_brand |-> \E i \in 1..Len(vs) :
                   vs[i].key = <<"b","r","a","n","d">> /\ vs[i].val # <<>>,
   has_product_name |-> \E i \in 1..Len(vs) :
                   vs[i].key = <<"p","r","o","d","u","c","t","_","n","a","m","e">>
                   /\ vs[i].val # <<>>]

scored(vs, extra, marketing_match, marketing_total, product_match, product_total, subcat_errors) ==
  accuracy_record(vs, extra, marketing_match, marketing_total, product_match,
                  product_total, subcat_errors,
                  Score(marketing_match, marketing_total, product_match,
                        product_total, subcat_errors))

\* steps 2 and 3: the counts over the ground-truth rows fs with the candidate
\* values f_v_vals found for them, and the extras among the candidate rows vs
count_rows(fs, vs, f_v_vals, fnf_lookup) ==
  LET is_m(i) == fs[i].key = <<>> /\ fs[i].val # <<>>
      is_p(i) == fs[i].key # <<>> /\ fs[i].val # <<>>
      matched(i) == f_v_vals[i] # <<>> /\ word_level_match(fs[i].val, f_v_vals[i])
  IN  scored(vs,
             List([i \in 1..Len(vs) |->
                vs[i].val # <<>> /\ LookupValue(fnf_lookup, vs[i]) = <<>>]),
             Cardinality({i \in 1..Len(fs) : is_m(i) /\ matched(i)}),
             Cardinality({i \in 1..Len(fs) : is_m(i)}),
             Cardinality({i \in 1..Len(fs) : is_p(i) /\ matched(i)}),
             Cardinality({i \in 1..Len(fs) : is_p(i)}),
             Cardinality({i \in 1..Len(fs) : is_p(i) /\ SubcatError(vs, fs[i], f_v_vals[i])}))

find_values(fs, vs, vlm_lookup, fnf_lookup) ==
  count_rows(fs, vs, List([i \in 1..Len(fs) |-> LookupValue(vlm_lookup, fs[i])]),
             fnf_lookup)

calculate_accuracy(vlm_df, fnf_df, fnf_lookup) ==
  find_values(List([i \in 1..Len(fnf_df) |-> Cells(fnf_df[i])]),
              List([i \in 1..Len(vlm_df) |-> Cells(vlm_df[i])]),
              vlm_lookup_of(vlm_df), fnf_lookup)

(***************************************************************************)
(* Highlighting of the displayed candidate table (highlight_gemini and     *)
(* highlight_odd have the same body).  A style is "" (none), "red" or      *)
(* "green".                                                                *)
(***************************************************************************)
\* fnf_catsubcat[cat].add(subcat) for a row with a value, a category and a
\* subcategory
catsubcat_put(d, c) ==
  IF c.val = <<>> \/ c.val = <<"n","a","n">> \/ c.cat = <<>> \/ c.subcat = <<>> THEN d
  ELSE DictSet(d, c.cat, DictGet(d, c.cat, {}) \cup {c.subcat})

\* fnf_catsubcat built in main next to fnf_lookup
fnf_catsubcat_of(fnf_df) ==
  LET F[i \in 0..Len(fnf_df)] ==
        IF i = 0 THEN <<>> ELSE catsubcat_put(F[i - 1], Cells(fnf_df[i]))
  IN  F[Len(fnf_df)]

Styles(cat, subcat, key, value) ==
  [Cat |-> cat, Subcat |-> subcat, Key |-> key, Value |-> value]

\* the subcategory check of a product row g: "new" when the category is not in
\* fnf_catsubcat, "wrong" when no subcategory of the category fuzzy-matches
subcat_check(g, catsubcat) ==
  IF g.cat = <<>> \/ g.subcat = <<>> \/ g.key = <<>> THEN "ok"
  ELSE IF ~DictHas(catsubcat, g.cat) THEN "new"
  ELSE IF \E fnf_sub \in DictGet(catsubcat, g.cat, {}) :
            fuzzy_match_subcat(g.subcat, fnf_sub)
  THEN "ok" ELSE "wrong"

\* the keys (cat, subcat, key) with the same category and key and a subcategory
\* equal once normalized
normalized_subcat_hit(g, k) ==
  Len(k) = 3 /\ k[1] = g.cat /\ k[3] = g.key
  /\ normalize_text(g.subcat) = normalize_text(k[2])

\* f_val: the ground-truth value the highlighter finds for the row g
highlight_f_val(g, lookup, check) ==
  IF g.key = <<>> THEN Lower(DictGet(lookup, <<g.cat, <<>>>>, <<>>))
  ELSE IF check = "wrong" THEN Lower(DictGet(lookup, <<g.cat, g.key>>, <<>>))
  ELSE IF DictGet(lookup, <<g.cat, g.subcat, g.key>>, <<>>) # <<>>
  THEN Lower(DictGet(lookup, <<g.cat, g.subcat, g.key>>, <<>>))
  ELSE Lower(first_value(lookup,
               {i \in 1..Len(lookup) : normalized_subcat_hit(g, lookup[i].k)}))

has_valid_value(val) ==
  val # <<>> /\ val \notin {<<"n","a","n">>, <<"n","o","n","e">>, <<"n","u","l","l">>,
                            <<"n","/","a">>}

\* the styles of a row that is not synthetic
highlight_styles(g, check, f_val) ==
  IF f_val # <<>>
  THEN Styles("", IF check = "wrong" THEN "red" ELSE "", "",
              IF has_valid_value(g.val) /\ word_level_match(f_val, g.val)
              THEN "" ELSE "red")
  ELSE IF has_valid_value(g.val) /\ check = "new"
  THEN Styles("red", "red", "red", "red")
  ELSE Styles("", IF check = "wrong" THEN "red" ELSE "", "",
              IF has_valid_value(g.val) THEN "green" ELSE "")

highlight_checked(g, lookup, check) ==
  highlight_styles(g, check, highlight_f_val(g, lookup, check))

\* highlight_gemini / highlight_odd
highlight(row, lookup, catsubcat) ==
  IF Lower(row.is_missing) = <<"t","r","u","e">>
  THEN IF Lower(row.is_key_only_missing) = <<"t","r","u","e">>
       THEN Styles("", "", "", "red")
       ELSE Styles("red", "red", "red", "red")
  ELSE highlight_checked(Cells(row), lookup, subcat_check(Cells(row), catsubcat))

\* df.style.apply(highlight, axis=1)
highlight_table(df, lookup, catsubcat) ==
  List([i \in 1..Len(df) |-> highlight(df[i], lookup, catsubcat)])

(***************************************************************************)
(* The per-image body of main() for one candidate source                   *)
(***************************************************************************)
\* lines 1052-1078 and 1210/1372: the accuracy of the table that is shown
reconcile_shown(fnf_img, shown) ==
  [table |-> shown,
   acc |-> calculate_accuracy(shown, fnf_img, fnf_lookup_of(fnf_img))]

\* lines 797/1238
reconcile_shaped(fnf_img, cand) ==
  reconcile_shown(fnf_img, add_missing_items(cand, fnf_img))

\* lines 535-546, 797/1238, 1052-1078, 1210/1372 composed
Reconcile(G, C) ==
  reconcile_shaped(sort_by_category(G), remove_duplicates(sort_by_category(C)))

(***************************************************************************)
(* Texts of the model                                                      *)
(***************************************************************************)
t_mood == <<"m","o","o","d">>
t_fashion_style == <<"f","a","s","h","i","o","n"," ","s","t","y","l","e">>
t_fashion_hyphen_style == <<"F","a","s","h","i","o","n","-","S","t","y","l","e">>
t_outer == <<"O","u","t","e","r">>
t_bottom == <<"b","o","t","t","o","m">>
t_jacket == <<"j","a","c","k","e","t">>
t_jeans == <<"j","e","a","n","s">>
t_jean == <<"j","e","a","n">>
t_pants == <<"p","a","n","t","s">>
t_color == <<"c","o","l","o","r">>
t_pattern == <<"p","a","t","t","e","r","n">>
t_solid == <<"s","o","l","i","d">>
t_casual == <<"c","a","s","u","a","l">>
t_sky_blue == <<"s","k","y"," ","b","l","u","e">>
t_blue == <<"b","l","u","e">>

\* all sequences over S of length at most n
SeqsUpTo(S, n) == UNION {[1..k -> S] : k \in 0..n}

(***************************************************************************)
(* State                                                                   *)
(***************************************************************************)
VARIABLES
  gt_raw,          \* df_fnf_raw: the ground-truth rows of the image
  cand_raw,        \* df_odd_raw / df_gemini_raw: the candidate rows of the image
  pc,              \* position in the per-image body of main()
  edited_fnf_img,  \* the shaped ground-truth table
  cand_df,         \* df_gemini_clean / df_odd_img: the candidate table so far
  fnf_lookup,      \* the dict fnf_lookup
  acc,             \* the AccuracyRecord returned by calculate_accuracy
  fnf_catsubcat,   \* the dict fnf_catsubcat: the subcategories of each category
  styles,          \* the cell styles of the displayed candidate table
  fnf_file,        \* FNF_FILE on disk: modification time, state, rows
  odd_file,        \* ODDCONCEPT_FILE on disk
  result_files,    \* OUTPUT_DIR/vlm_analysis_result_*.xlsx, latest name first
  load_cache,      \* the st.cache_data entries of load_data
  view,            \* what the last run of main() rendered
  images,          \* the corpus: per image its ground-truth, VLM and vendor rows
  img_idx,         \* how many images of image_list have been processed
  gemini_marketing_rates,
  gemini_product_rates,
  odd_marketing_rates,
  odd_product_rates,
  summary,         \* the averages of the summary, once computed
  text1,           \* first argument of a matcher or normalizer call
  text2,           \* second argument
  verdict          \* what the calls on (text1, text2) returned

pvars == <<gt_raw, cand_raw, pc, edited_fnf_img, cand_df, fnf_lookup, acc,
           fnf_catsubcat, styles>>

rvars == <<fnf_file, odd_file, result_files, load_cache, view>>

mvars == <<text1, text2, verdict>>

avars == <<images, img_idx, gemini_marketing_rates, gemini_product_rates,
           odd_marketing_rates, odd_product_rates, summary>>

vars == <<gt_raw, cand_raw, pc, edited_fnf_img, cand_df, fnf_lookup, acc,
          fnf_catsubcat, styles,
          fnf_file, odd_file, result_files, load_cache, view,
          images, img_idx, gemini_marketing_rates, gemini_product_rates,
          odd_marketing_rates, odd_product_rates, summary,
          text1, text2, verdict>>

MaxG == 2
MaxC == 2

GRows ==
  { Row(t_fashion_style, <<>>, <<>>, t_casual),
    Row(t_outer, t_jacket, t_color, t_sky_blue),
    Row(t_bottom, t_jeans, t_pattern, t_solid),
    Row(<<>>, <<>>, t_pattern, <<>>) }

CRows ==
  { Row(t_fashion_style, <<>>, <<>>, t_casual),
    Row(t_fashion_hyphen_style, <<>>, <<>>, t_casual),
    Row(t_outer, t_jacket, t_color, t_blue),
    Row(t_bottom, t_pants, t_pattern, t_solid),
    Row(t_bottom, <<>>, t_pattern, t_solid) }

\* a file path: mtime stands for what main() reads from it (st_mtime, or None
\* once the file is gone) and changes with every change of the path
File(mtime, state, rows) == [mtime |-> mtime, state |-> state, rows |-> rows]

\* the files as first written: every source present and loadable
InitFiles ==
  /\ fnf_file = File(1, "ok", <<Row(t_outer, t_jacket, t_color, t_sky_blue)>>)
  /\ odd_file = File(1, "ok", <<Row(t_outer, t_jacket, t_color, t_blue)>>)
  /\ result_files = <<File(1, "ok", <<Row(t_mood, <<>>, <<>>, t_casual)>>)>>
  /\ load_cache = <<>>
  /\ view = <<>>

\* main, lines 339-342: the four lists of rates are empty
InitRates ==
  /\ img_idx = 0
  /\ gemini_marketing_rates = <<>>
  /\ gemini_product_rates = <<>>
  /\ odd_marketing_rates = <<>>
  /\ odd_product_rates = <<>>
  /\ summary = <<>>

\* no matcher call has returned yet
NoCall ==
  [word_level_match |-> <<>>, fuzzy_match_subcat |-> <<>>,
   match_cat_words |-> <<>>, match_subcat_words |-> <<>>, normalized |-> <<>>]

InitPipeline ==
  /\ InitFiles
  /\ InitRates
  /\ verdict = NoCall
  /\ pc = "raw"
  /\ edited_fnf_img = <<>>
  /\ cand_df = <<>>
  /\ fnf_lookup = <<>>
  /\ fnf_catsubcat = <<>>
  /\ styles = <<>>
  /\ acc = <<>>

Init ==
  /\ gt_raw \in SeqsUpTo(GRows, MaxG)
  /\ cand_raw \in SeqsUpTo(CRows, MaxC)
  /\ images = <<>>
  /\ text1 = <<>>
  /\ text2 = <<>>
  /\ InitPipeline

\* one image with a single ground-truth product row and a single candidate row
PairGRows ==
  { Row(c, s, k, v) : c \in {t_outer, t_bottom}, s \in {<<>>, t_jacket, t_jeans},
                      k \in {t_color, t_pattern}, v \in {t_sky_blue, t_solid} }

PairCRows ==
  { Row(c, s, k, v) : c \in {t_outer, t_bottom},
                      s \in {<<>>, t_jacket, t_jean, t_pants},
                      k \in {t_color, t_pattern}, v \in {t_blue, t_solid, t_casual} }

InitPair ==
  /\ gt_raw \in {<<g>> : g \in PairGRows}
  /\ cand_raw \in {<<c>> : c \in PairCRows}
  /\ images = <<>>
  /\ text1 = <<>>
  /\ text2 = <<>>
  /\ InitPipeline

\* main, lines 535-545: the three tables are shaped
SortTables ==
  /\ pc = "raw"
  /\ edited_fnf_img' = sort_by_category(gt_raw)
  /\ cand_df' = sort_by_category(cand_raw)
  /\ pc' = "sorted"
  /\ UNCHANGED <<gt_raw, cand_raw, fnf_lookup, acc, fnf_catsubcat, styles, rvars, avars, mvars>>

\* main, lines 541/546: the candidate table is de-duplicated
RemoveDuplicates ==
  /\ pc = "sorted"
  /\ cand_df' = remove_duplicates(cand_df)
  /\ pc' = "dedup"
  /\ UNCHANGED <<gt_raw, cand_raw, edited_fnf_img, fnf_lookup, acc, fnf_catsubcat, styles,
               rvars, avars, mvars>>

\* main, lines 797/1238: synthetic rows for the missing ground-truth entries
AddMissingItems ==
  /\ pc = "dedup"
  /\ cand_df' = add_missing_items(cand_df, edited_fnf_img)
  /\ pc' = "missing"
  /\ UNCHANGED <<gt_raw, cand_raw, edited_fnf_img, fnf_lookup, acc, fnf_catsubcat, styles,
               rvars, avars, mvars>>

\* main, lines 1052-1078
BuildFnfLookup ==
  /\ pc = "missing"
  /\ fnf_lookup' = fnf_lookup_of(edited_fnf_img)
  /\ fnf_catsubcat' = fnf_catsubcat_of(edited_fnf_img)
  /\ pc' = "lookup"
  /\ UNCHANGED <<gt_raw, cand_raw, edited_fnf_img, cand_df, acc, styles, rvars, avars, mvars>>

\* main, lines 1193-1210 / 1356-1372: the candidate table is displayed with its
\* highlighting and its accuracy is computed
CalculateAccuracy ==
  /\ pc = "lookup"
  /\ styles' = highlight_table(cand_df, fnf_lookup, fnf_catsubcat)
  /\ acc' = calculate_accuracy(cand_df, edited_fnf_img, fnf_lookup)
  /\ pc' = "done"
  /\ UNCHANGED <<gt_raw, cand_raw, edited_fnf_img, cand_df, fnf_lookup, fnf_catsubcat,
               rvars, avars, mvars>>

Next ==
  \/ SortTables
  \/ RemoveDuplicates
  \/ AddMissingItems
  \/ BuildFnfLookup
  \/ CalculateAccuracy

Spec == Init /\ [][Next]_vars

SpecPair == InitPair /\ [][Next]_vars

\* one image with a single ground-truth product row and two candidate rows of
\* the same category, so that a key can stand under two subcategories
LookupGRows == { Row(t_bottom, s, t_pattern, t_solid) : s \in {<<>>, t_jeans} }

LookupCRows ==
  { Row(t_bottom, s, k, v) : s \in {<<>>, t_jean, t_jeans, t_pants},
                             k \in {t_pattern, t_color},
                             v \in {<<>>, t_solid, t_blue} }

InitLookup ==
  /\ gt_raw \in {<<g>> : g \in LookupGRows}
  /\ cand_raw \in {<<c, d>> : c \in LookupCRows, d \in LookupCRows}
  /\ images = <<>>
  /\ text1 = <<>>
  /\ text2 = <<>>
  /\ InitPipeline

SpecLookup == InitLookup /\ [][Next]_vars

\* one image with one or two ground-truth rows and up to two candidate rows,
\* among them candidate rows that state a ground-truth group under another key
MissingCRows ==
  CRows \cup { Row(t_bottom, t_jean, t_color, t_blue),
               Row(t_outer, t_jacket, t_pattern, t_solid) }

InitMissing ==
  /\ gt_raw \in {<<g>> : g \in GRows} \cup {<<g, h>> : g \in GRows, h \in GRows}
  /\ cand_raw \in {<<>>} \cup {<<c>> : c \in MissingCRows}
                  \cup {<<c, d>> : c \in MissingCRows, d \in MissingCRows}
  /\ images = <<>>
  /\ text1 = <<>>
  /\ text2 = <<>>
  /\ InitPipeline

SpecMissing == InitMissing /\ [][Next]_vars

\* one image whose candidate table has one to three rows: recognized and
\* unrecognized categories, rows without a category (a blank cell that has
\* nothing above it to be filled from), marketing and product rows, and two
\* rows that differ in their value only
ShapeRows ==
  { Row(t_mood, <<>>, <<>>, t_casual),
    Row(t_fashion_hyphen_style, <<>>, <<>>, t_casual),
    Row(t_outer, t_jacket, t_color, t_blue),
    Row(t_outer, t_jacket, t_color, t_solid),
    Row(t_pants, t_jean, t_color, t_blue),
    Row(<<>>, <<>>, t_pattern, t_solid),
    Row(<<>>, <<>>, <<>>, t_casual) }

InitShape ==
  /\ gt_raw \in {<<g>> : g \in ShapeRows}
  /\ cand_raw \in {<<c>> : c \in ShapeRows}
                  \cup {<<c, d>> : c \in ShapeRows, d \in ShapeRows}
                  \cup {<<c, d, e>> : c \in ShapeRows, d \in ShapeRows, e \in ShapeRows}
  /\ images = <<>>
  /\ text1 = <<>>
  /\ text2 = <<>>
  /\ InitPipeline

SpecShape == InitShape /\ [][Next]_vars

\* one image whose candidate table is the ground-truth table itself, of two
\* or three rows
SelfRows ==
  { Row(t_fashion_style, <<>>, <<>>, t_casual),
    Row(t_mood, <<>>, <<>>, t_casual),
    Row(t_outer, t_jacket, t_color, t_sky_blue),
    Row(t_outer, t_pants, t_color, t_blue),
    Row(t_bottom, t_jeans, t_pattern, t_solid),
    Row(t_bottom, <<>>, t_pattern, t_solid) }

InitSelf ==
  /\ gt_raw \in {<<g, h>> : g \in SelfRows, h \in SelfRows}
                \cup {<<g, h, k>> : g \in SelfRows, h \in SelfRows, k \in SelfRows}
  /\ cand_raw = gt_raw
  /\ images = <<>>
  /\ text1 = <<>>
  /\ text2 = <<>>
  /\ InitPipeline

SpecSelf == InitSelf /\ [][Next]_vars

(***************************************************************************)
(* Loading and rendering: main() is re-run on every interaction            *)
(***************************************************************************)
MaxMtime == 2
MaxResults == 2
MaxResultMtime == 3

FileStates == {"ok", "missing", "no_column"}

ResultStates == {"ok", "locked", "broken"}

FnfTables ==
  { <<Row(t_outer, t_jacket, t_color, t_sky_blue)>>,
    <<Row(t_bottom, t_jeans, t_pattern, t_solid)>> }

OddTables ==
  { <<Row(t_outer, t_jacket, t_color, t_blue)>>,
    <<Row(t_bottom, t_pants, t_pattern, t_solid)>> }

ResultTables ==
  { <<Row(t_mood, <<>>, <<>>, t_casual)>>,
    <<Row(t_fashion_style, <<>>, <<>>, t_casual)>> }

\* the latest modification time among the result files, 0 without files
NewestMtime(files) ==
  IF files = <<>> THEN 0
  ELSE CHOOSE m \in {files[i].mtime : i \in 1..Len(files)} :
         \A i \in 1..Len(files) : files[i].mtime <= m

\* df[col].fillna('').astype(str).str.lower() over the four columns
lower_columns(rows) ==
  List([i \in 1..Len(rows) |->
    [rows[i] EXCEPT !.Cat = Lower(@), !.Subcat = Lower(@),
                    !.Key = Lower(@), !.Value = Lower(@)]])

\* (df, error) of load_fnf_data; its own one-second cache is always empty when
\* the body of load_data runs, so it is not kept
load_fnf_data(file) ==
  IF file.state = "missing" THEN [df |-> <<>>, error |-> "not found"]
  ELSE IF file.state = "no_column" THEN [df |-> <<>>, error |-> "required columns"]
  ELSE [df |-> lower_columns(file.rows), error |-> ""]

load_oddconcept_data(file) ==
  IF file.state = "missing" THEN [df |-> <<>>, error |-> "not found"]
  ELSE IF file.state = "no_column" THEN [df |-> <<>>, error |-> "required columns"]
  ELSE [df |-> lower_columns(file.rows), error |-> ""]

\* the table of load_gemini_results and whether one was read (None otherwise)
load_gemini_results(files) ==
  IF files = <<>> THEN [df |-> <<>>, loaded |-> FALSE]
  ELSE IF files[1].state = "ok"
  THEN [df |-> lower_columns(files[1].rows), loaded |-> TRUE]
  ELSE IF files[1].state = "locked" /\ Len(files) > 1 /\ files[2].state = "ok"
  THEN [df |-> lower_columns(files[2].rows), loaded |-> TRUE]
  ELSE [df |-> <<>>, loaded |-> FALSE]

\* the body of load_data
load_data_body(fnf, results, odd) ==
  LET f == load_fnf_data(fnf)
      g == load_gemini_results(results)
      o == load_oddconcept_data(odd)
      failed(e) == [df_fnf |-> <<>>, df_gemini |-> <<>>, df_oddconcept |-> <<>>,
                    error |-> e]
  IN  IF f.error # "" THEN failed("fnf")
      ELSE IF o.error # "" THEN failed("oddconcept")
      ELSE [df_fnf |-> f.df,
            df_gemini |-> IF g.loaded THEN g.df ELSE <<>>,
            df_oddconcept |-> o.df,
            error |-> ""]

\* st.cache_data on load_data(_fnf_mtime, _oddconcept_mtime): parameters named
\* with a leading underscore are left out of the cache key, so an entry made
\* by any earlier call answers every later call
load_data(cache, fnf_mtime, oddconcept_mtime) ==
  IF cache # <<>> THEN cache[1].value
  ELSE load_data_body(fnf_file, result_files, odd_file)

\* main() after the load: the error page, the warning of an empty image list,
\* or the comparison of the image for both candidate sources
main_view(fnf_mtime, oddconcept_mtime, data) ==
  [fnf_mtime |-> fnf_mtime,
   oddconcept_mtime |-> oddconcept_mtime,
   data |-> data,
   status |-> IF data.error # "" THEN "error"
              ELSE IF data.df_gemini = <<>> THEN "no_results" ELSE "report",
   gemini |-> IF data.error # "" \/ data.df_gemini = <<>> THEN <<>>
              ELSE <<Reconcile(data.df_fnf, data.df_gemini).acc>>,
   odd |-> IF data.error # "" \/ data.df_gemini = <<>> THEN <<>>
           ELSE <<Reconcile(data.df_fnf, data.df_oddconcept).acc>>]

\* the entry kept for a call, with the modification times it was called with
CacheEntry(data) ==
  [fnf_mtime |-> fnf_file.mtime, oddconcept_mtime |-> odd_file.mtime, value |-> data]

\* the ground-truth spreadsheet is saved, replaced or removed
EditFnf ==
  /\ fnf_file.mtime < MaxMtime
  /\ \E st \in FileStates, rows \in FnfTables :
       fnf_file' = File(fnf_file.mtime + 1, st, rows)
  /\ UNCHANGED <<odd_file, result_files, load_cache, view, pvars, avars, mvars>>

\* the vendor spreadsheet is saved, replaced or removed
EditOdd ==
  /\ odd_file.mtime < MaxMtime
  /\ \E st \in FileStates, rows \in OddTables :
       odd_file' = File(odd_file.mtime + 1, st, rows)
  /\ UNCHANGED <<fnf_file, result_files, load_cache, view, pvars, avars, mvars>>

\* vlm_test.py writes a result file named after the current time, later than
\* every name there is, or the files are removed
WriteResults ==
  /\ \/ /\ Len(result_files) < MaxResults
        /\ NewestMtime(result_files) < MaxResultMtime
        /\ \E st \in ResultStates, rows \in ResultTables :
             result_files' =
               <<File(NewestMtime(result_files) + 1, st, rows)>> \o result_files
     \/ /\ result_files # <<>>
        /\ result_files' = <<>>
  /\ UNCHANGED <<fnf_file, odd_file, load_cache, view, pvars, avars, mvars>>

\* an existing result file is written again under its own name: vlm_test.py
\* called with output_excel, or results corrected by hand
ResaveResults ==
  /\ NewestMtime(result_files) < MaxResultMtime
  /\ \E i \in 1..Len(result_files), rows \in ResultTables :
       result_files' =
         [result_files EXCEPT ![i] = File(NewestMtime(result_files) + 1, "ok", rows)]
  /\ UNCHANGED <<fnf_file, odd_file, load_cache, view, pvars, avars, mvars>>

\* a run of main(): lines 303-313, 383-397 and the per-image body
Render ==
  /\ LET data == load_data(load_cache, fnf_file.mtime, odd_file.mtime)
     IN  /\ load_cache' = IF load_cache # <<>> THEN load_cache
                          ELSE <<CacheEntry(data)>>
         /\ view' = main_view(fnf_file.mtime, odd_file.mtime, data)
  /\ UNCHANGED <<fnf_file, odd_file, result_files, pvars, avars, mvars>>

\* the refresh button: st.cache_data.clear() and st.rerun()
Refresh ==
  /\ view # <<>>
  /\ LET data == load_data(<<>>, fnf_file.mtime, odd_file.mtime)
     IN  /\ load_cache' = <<CacheEntry(data)>>
         /\ view' = main_view(fnf_file.mtime, odd_file.mtime, data)
  /\ UNCHANGED <<fnf_file, odd_file, result_files, pvars, avars, mvars>>

RenderInit ==
  /\ gt_raw = <<>>
  /\ cand_raw = <<>>
  /\ images = <<>>
  /\ text1 = <<>>
  /\ text2 = <<>>
  /\ InitPipeline

RenderNext ==
  \/ EditFnf
  \/ EditOdd
  \/ WriteResults
  \/ ResaveResults
  \/ Render
  \/ Refresh

RenderSpec == RenderInit /\ [][RenderNext]_vars

(***************************************************************************)
(* The corpus summary: main() visits the images of image_list in turn,     *)
(* appends the two accuracies of each candidate source to its lists, and   *)
(* averages the lists at the end.                                          *)
(***************************************************************************)
MaxImages == 2

\* the rows of one image in the three tables
Image(fnf, gemini, odd) == [fnf |-> fnf, gemini |-> gemini, odd |-> odd]

ImageCases ==
  { Image(f, g, o) :
      f \in { <<Row(t_outer, t_jacket, t_color, t_sky_blue)>>,
               <<Row(t_fashion_style, <<>>, <<>>, t_casual),
                 Row(t_bottom, t_jeans, t_pattern, t_solid)>> },
      g \in { <<>>,
               <<Row(t_outer, t_jacket, t_color, t_blue)>>,
               <<Row(t_fashion_style, <<>>, <<>>, t_casual)>> },
      o \in { <<>>,
               <<Row(t_outer, t_jacket, t_color, t_blue)>>,
               <<Row(t_bottom, t_pants, t_pattern, t_solid)>> } }

\* lines 383-397: image_list is taken from the VLM table, so it holds the
\* images that have VLM rows, in their order of first appearance
image_list(imgs) ==
  SelectSeq(List([i \in 1..Len(imgs) |-> i]), LAMBDA i : imgs[i].gemini # <<>>)

\* sum(rates)
RatSum(rates) ==
  LET F[i \in 0..Len(rates)] ==
        IF i = 0 THEN <<0, 1>> ELSE RatAdd(F[i - 1], rates[i])
  IN  F[Len(rates)]

\* sum(rates) / len(rates) if rates else 0
average(rates) ==
  IF rates = <<>> THEN <<0, 1>> ELSE RatMul(RatSum(rates), Frac(1, Len(rates)))

\* lines 1401-1407
summary_of(gm, gp, om, op) ==
  [avg_gemini_marketing |-> gm,
   avg_gemini_product |-> gp,
   avg_gemini |-> RatMul(RatAdd(gm, gp), Frac(1, 2)),
   avg_odd_marketing |-> om,
   avg_odd_product |-> op,
   avg_odd |-> RatMul(RatAdd(om, op), Frac(1, 2))]

\* the two accuracies of a candidate table of an image appended to its lists
ImageRates(img, gemini_acc, odd_acc) ==
  /\ gemini_marketing_rates' = Append(gemini_marketing_rates, gemini_acc.marketing_acc)
  /\ gemini_product_rates' = Append(gemini_product_rates, gemini_acc.product_acc)
  /\ odd_marketing_rates' = Append(odd_marketing_rates, odd_acc.marketing_acc)
  /\ odd_product_rates' = Append(odd_product_rates, odd_acc.product_acc)

\* one iteration of the loop over image_list: both candidate tables of the
\* image are reconciled, whatever rows the vendor table has for the image
ImageSection ==
  /\ img_idx < Len(image_list(images))
  /\ ImageRates(images[image_list(images)[img_idx + 1]],
                Reconcile(images[image_list(images)[img_idx + 1]].fnf,
                          images[image_list(images)[img_idx + 1]].gemini).acc,
                Reconcile(images[image_list(images)[img_idx + 1]].fnf,
                          images[image_list(images)[img_idx + 1]].odd).acc)
  /\ img_idx' = img_idx + 1
  /\ UNCHANGED <<images, summary, pvars, rvars, mvars>>

\* the summary after the loop (also when image_list is empty)
Summary ==
  /\ img_idx = Len(image_list(images))
  /\ summary = <<>>
  /\ summary' = summary_of(average(gemini_marketing_rates),
                           average(gemini_product_rates),
                           average(odd_marketing_rates),
                           average(odd_product_rates))
  /\ UNCHANGED <<images, img_idx, gemini_marketing_rates, gemini_product_rates,
                 odd_marketing_rates, odd_product_rates, pvars, rvars, mvars>>

CorpusInit ==
  /\ gt_raw = <<>>
  /\ cand_raw = <<>>
  /\ images \in SeqsUpTo(ImageCases, MaxImages)
  /\ text1 = <<>>
  /\ text2 = <<>>
  /\ InitPipeline

CorpusNext ==
  \/ ImageSection
  \/ Summary

CorpusSpec == CorpusInit /\ [][CorpusNext]_vars

(***************************************************************************)
(* The matchers and normalizers called on a pair of texts                  *)
(***************************************************************************)
t_space == <<" ">>
t_skyblue == <<"s","k","y","b","l","u","e">>
t_shoes == <<"s","h","o","e","s">>
t_shoe == <<"s","h","o","e">>
t_s == <<"s">>
t_t_hyphen_shirt == <<"t","-","s","h","i","r","t">>
t_t_space_shirt == <<"t"," ","s","h","i","r","t">>
t_T_underscore_Shirt == <<"T","_","S","h","i","r","t">>
t_jeans_comma_pants == <<"j","e","a","n","s",","," ","p","a","n","t","s">>

\* cell texts: blank, values, subcategory and category labels
Labels ==
  { <<>>, t_space, t_sky_blue, t_skyblue, t_blue, t_jeans, t_jean, t_shoes, t_shoe,
    t_s, t_t_hyphen_shirt, t_t_space_shirt, t_T_underscore_Shirt,
    t_jeans_comma_pants }

\* the result of a call, kept as a one-element list
Returned(v) == <<v>>

WordLevelMatch ==
  /\ verdict.word_level_match = <<>>
  /\ verdict' = [verdict EXCEPT
                   !.word_level_match = Returned(word_level_match(text1, text2))]
  /\ UNCHANGED <<text1, text2, pvars, rvars, avars>>

FuzzyMatchSubcat ==
  /\ verdict.fuzzy_match_subcat = <<>>
  /\ verdict' = [verdict EXCEPT
                   !.fuzzy_match_subcat = Returned(fuzzy_match_subcat(text1, text2))]
  /\ UNCHANGED <<text1, text2, pvars, rvars, avars>>

MatchCatWords ==
  /\ verdict.match_cat_words = <<>>
  /\ verdict' = [verdict EXCEPT
                   !.match_cat_words = Returned(match_cat_words(text1, text2))]
  /\ UNCHANGED <<text1, text2, pvars, rvars, avars>>

MatchSubcatWords ==
  /\ verdict.match_subcat_words = <<>>
  /\ verdict' = [verdict EXCEPT
                   !.match_subcat_words = Returned(match_subcat_words(text1, text2))]
  /\ UNCHANGED <<text1, text2, pvars, rvars, avars>>

\* normalize_text, normalize_for_dedup and normalize_for_compare on both texts
Normalize ==
  /\ verdict.normalized = <<>>
  /\ verdict' = [verdict EXCEPT !.normalized =
                   Returned([text |-> <<normalize_text(text1), normalize_text(text2)>>,
                             dedup |-> <<normalize_for_dedup(text1),
                                         normalize_for_dedup(text2)>>,
                             compare |-> <<normalize_for_compare(text1),
                                           normalize_for_compare(text2)>>])]
  /\ UNCHANGED <<text1, text2, pvars, rvars, avars>>

\* any two cell texts, and every text against the same text with an 's' added
MatchInit ==
  /\ gt_raw = <<>>
  /\ cand_raw = <<>>
  /\ images = <<>>
  /\ text2 \in Labels
  /\ text1 \in Labels \cup {Append(text2, "s")}
  /\ InitPipeline

MatchNext ==
  \/ WordLevelMatch
  \/ FuzzyMatchSubcat
  \/ MatchCatWords
  \/ MatchSubcatWords
  \/ Normalize

MatchSpec == MatchInit /\ [][MatchNext]_vars

(***************************************************************************)
(* Vocabulary of the properties                                            *)
(***************************************************************************)
Done == pc = "done"

\* the ground-truth entries that count: rows of the shaped table with a value
ProductEntries(df) ==
  {i \in 1..Len(df) : Cells(df[i]).key # <<>> /\ Cells(df[i]).val # <<>>}

MarketingEntries(df) ==
  {i \in 1..Len(df) : Cells(df[i]).key = <<>> /\ Cells(df[i]).val # <<>>}

\* the candidate table before the synthetic rows are injected
CandBefore == remove_duplicates(sort_by_category(cand_raw))

\* every row of a table followed by a copy of itself
Dup(df) == List([i \in 1..(2 * Len(df)) |-> df[(i + 1) \div 2]])

(***************************************************************************)
(* C1: when the ground truth has at least one product entry and the        *)
(* candidate row-set is empty, product_total is the number of product      *)
(* entries, product_match is 0 and product_accuracy is 0.                  *)
(* The code scores such a candidate 40: no subcategory error is counted    *)
(* for an entry without a candidate value, so subcat_acc is 100.           *)
(***************************************************************************)
C1_MissingCandidateScoresZero ==
  (Done /\ cand_raw = <<>> /\ ProductEntries(edited_fnf_img) # {})
    => /\ acc.product_total = Cardinality(ProductEntries(edited_fnf_img))
       /\ acc.product_match = 0
       /\ acc.product_acc = <<0, 1>>

(***************************************************************************)
(* C2: with positive totals, marketing_acc = marketing_match /             *)
(* marketing_total * 100 and product_acc = 0.6 * (product_match /          *)
(* product_total * 100) + 0.4 * ((product_total - subcat_errors) /         *)
(* product_total * 100), from the counts of the same record.  Stated       *)
(* cross-multiplied over the integers.                                     *)
(***************************************************************************)
C2_ScoreFormula ==
  Done =>
    /\ acc.marketing_total > 0 =>
         acc.marketing_acc[1] * acc.marketing_total
           = acc.marketing_acc[2] * 100 * acc.marketing_match
    /\ acc.product_total > 0 =>
         acc.product_acc[1] * acc.product_total
           = acc.product_acc[2]
               * (60 * acc.product_match
                    + 40 * (acc.product_total - acc.subcat_errors))

C2_Witness ==
  /\ Done
  /\ acc.marketing_total > 0 /\ acc.marketing_match > 0
  /\ acc.product_total > 0 /\ acc.product_match > 0
  /\ acc.subcat_errors > 0

(***************************************************************************)
(* C3: without marketing entries in the ground truth marketing_acc is 0;   *)
(* without product entries product_acc, value_acc and subcat_acc are 0;    *)
(* for every candidate, the empty one included.                            *)
(***************************************************************************)
C3_ZeroDenominator ==
  Done =>
    /\ MarketingEntries(edited_fnf_img) = {} => acc.marketing_acc = <<0, 1>>
    /\ ProductEntries(edited_fnf_img) = {} =>
         /\ acc.product_acc = <<0, 1>>
         /\ acc.value_acc = <<0, 1>>
         /\ acc.subcat_acc = <<0, 1>>

C3_Witness ==
  /\ Done
  /\ Len(gt_raw) > 0 /\ Len(cand_raw) > 0
  /\ MarketingEntries(edited_fnf_img) = {}
  /\ ProductEntries(edited_fnf_img) = {}
  /\ acc.marketing_extra + acc.product_extra > 0

(***************************************************************************)
(* C5: reconciling the candidate with every row duplicated yields the      *)
(* same AccuracyRecord.                                                    *)
(***************************************************************************)
C5_DedupIdempotence ==
  Done => Reconcile(gt_raw, Dup(cand_raw)).acc = acc

C5_Witness ==
  /\ Done
  /\ Len(cand_raw) = 2
  /\ acc.product_extra > 0
  /\ acc.marketing_match > 0

(***************************************************************************)
(* C4: a single ground-truth product entry and a single candidate row of   *)
(* the same category and key, with a word-overlapping value and a          *)
(* non-blank subcategory sharing no word with the ground truth's: the      *)
(* (cat, key) fallback finds the value, so product_match = 1,              *)
(* subcat_errors = 1 and product_acc = 60.                                 *)
(***************************************************************************)
PairCase ==
  /\ Done
  /\ Len(gt_raw) = 1 /\ Len(cand_raw) = 1
  /\ LET g == Cells(edited_fnf_img[1])
         c == Cells(CandBefore[1])
     IN  /\ g.key # <<>> /\ g.val # <<>>
         /\ c.cat = g.cat /\ c.key = g.key
         /\ word_level_match(g.val, c.val)
         /\ c.subcat # <<>>
         /\ ~fuzzy_match_subcat(c.subcat, g.subcat)

PairResult ==
  /\ acc.product_total = 1
  /\ acc.product_match = 1
  /\ acc.subcat_errors = 1
  /\ acc.product_acc = <<60, 1>>

MarketingMatched(i) ==
  LET g == Cells(edited_fnf_img[i])
      v == LookupValue(vlm_lookup_of(CandBefore), g)
  IN  v # <<>> /\ word_level_match(g.val, v)

C7_MarketingCounts ==
  Done =>
    /\ acc.marketing_total = Cardinality(MarketingEntries(edited_fnf_img))
    /\ acc.marketing_match =
         Cardinality({i \in MarketingEntries(edited_fnf_img) : MarketingMatched(i)})

(***************************************************************************)
(* C8: adding to the candidate one row with a key and a value whose        *)
(* category and key are absent from the ground truth raises product_extra  *)
(* by exactly one and leaves every other count unchanged.                  *)
(***************************************************************************)
AbsentFromG(r) ==
  /\ r.Key # <<>> /\ r.Value # <<>> /\ r.Cat # <<>> /\ r.Subcat # <<>>
  /\ \A i \in 1..Len(edited_fnf_img) :
       LET g == Cells(edited_fnf_img[i])
       IN  /\ ~word_level_match(g.cat, r.Cat)
           /\ ~match_cat_words(g.cat, r.Cat)
           /\ g.key # Lower(Strip(r.Key))
  /\ \A i \in 1..Len(cand_raw) : cand_raw[i].Cat # r.Cat

Counts(a) ==
  <<a.product_match, a.product_total, a.subcat_errors, a.marketing_match,
    a.marketing_total, a.marketing_extra, a.product_extra>>

C8_ExtraRowOnlyAddsExtra ==
  Done =>
    \A r \in CRows :
      AbsentFromG(r) =>
        Counts(Reconcile(gt_raw, Append(cand_raw, r)).acc)
          = Counts([acc EXCEPT !.product_extra = @ + 1])

(***************************************************************************)
(* C9: a load error of one candidate source (the vendor file absent or     *)
(* without a required column, or no readable VLM result file) leaves the   *)
(* other candidate's per-image comparison and accuracy in place; only a    *)
(* load error of the ground truth blocks the whole comparison.  Stated of  *)
(* a run whose loaded data are those of the files as they are.             *)
(***************************************************************************)
LoadedAfresh ==
  /\ view # <<>>
  /\ view.data = load_data_body(fnf_file, result_files, odd_file)

C9_OneSourceFailureKeepsOther ==
  LoadedAfresh =>
    /\ load_fnf_data(fnf_file).error # "" => view.status = "error"
    /\ (/\ load_fnf_data(fnf_file).error = ""
        /\ load_oddconcept_data(odd_file).error # ""
        /\ load_gemini_results(result_files).loaded)
         => view.gemini =
              <<Reconcile(load_fnf_data(fnf_file).df,
                          load_gemini_results(result_files).df).acc>>
    /\ (/\ load_fnf_data(fnf_file).error = ""
        /\ load_oddconcept_data(odd_file).error = ""
        /\ ~load_gemini_results(result_files).loaded)
         => view.odd =
              <<Reconcile(load_fnf_data(fnf_file).df,
                          load_oddconcept_data(odd_file).df).acc>>

(***************************************************************************)
(* C10: a run of main() that follows a change of the modification time of  *)
(* the ground-truth or the vendor spreadsheet uses the rows loaded from    *)
(* the changed file, never those cached under an older modification time.  *)
(***************************************************************************)
RenderedAfterChange ==
  /\ view # <<>>
  /\ view.fnf_mtime = fnf_file.mtime
  /\ view.oddconcept_mtime = odd_file.mtime
  /\ load_cache # <<>>
  /\ \/ load_cache[1].fnf_mtime # fnf_file.mtime
     \/ load_cache[1].oddconcept_mtime # odd_file.mtime

C10_RenderReloadsChangedFiles ==
  RenderedAfterChange =>
    /\ load_fnf_data(fnf_file).error = ""
         => view.data.df_fnf = load_fnf_data(fnf_file).df
    /\ load_oddconcept_data(odd_file).error = ""
         => view.data.df_oddconcept = load_oddconcept_data(odd_file).df
    /\ (load_fnf_data(fnf_file).error # "" \/ load_oddconcept_data(odd_file).error # "")
         => view.status = "error"

(***************************************************************************)
(* C11: for each candidate source the corpus marketing and product         *)
(* averages are the arithmetic means of the per-image accuracies over      *)
(* exactly the images for which that source has rows; the combined figure  *)
(* is the unweighted mean of the two; all are 0 when there is no such      *)
(* image.                                                                  *)
(***************************************************************************)
\* the accuracies of the images of `imgs` that have rows of the source
RatesOf(imgs, source, field) ==
  LET with == SelectSeq(imgs, LAMBDA img : img[source] # <<>>)
  IN  List([i \in 1..Len(with) |-> Reconcile(with[i].fnf, with[i][source]).acc[field]])

C11_CorpusAverages ==
  summary # <<>> =>
    /\ summary.avg_gemini_marketing = average(RatesOf(images, "gemini", "marketing_acc"))
    /\ summary.avg_gemini_product = average(RatesOf(images, "gemini", "product_acc"))
    /\ summary.avg_odd_marketing = average(RatesOf(images, "odd", "marketing_acc"))
    /\ summary.avg_odd_product = average(RatesOf(images, "odd", "product_acc"))
    /\ summary.avg_gemini =
         RatMul(RatAdd(summary.avg_gemini_marketing, summary.avg_gemini_product),
                Frac(1, 2))
    /\ summary.avg_odd =
         RatMul(RatAdd(summary.avg_odd_marketing, summary.avg_odd_product), Frac(1, 2))

(***************************************************************************)
(* C12: when several result files exist in the output directory, the VLM   *)
(* table is loaded from the most recently modified one, whatever the       *)
(* names and modification times of the files.  Stated of a run that        *)
(* loaded the files as they are, all of them readable.                     *)
(***************************************************************************)
MostRecentlyModified(files) ==
  files[CHOOSE i \in 1..Len(files) : files[i].mtime = NewestMtime(files)]

SeveralReadableResults ==
  /\ LoadedAfresh
  /\ view.data.error = ""
  /\ Len(result_files) > 1
  /\ \A i \in 1..Len(result_files) : result_files[i].state = "ok"

C12_LatestModifiedResultLoaded ==
  SeveralReadableResults =>
    view.data.df_gemini = lower_columns(MostRecentlyModified(result_files).rows)

(***************************************************************************)
(* C13: word_overlap(a, b) is true exactly when the token sets of a and b  *)
(* intersect, the token set of a text holding, for each comma-separated    *)
(* phrase, the whole normalized phrase and each normalized word, every     *)
(* token with its trailing 's' stripped.                                   *)
(***************************************************************************)
\* the token set as stated
tokenize_value_set(text) ==
  UNION {
    ({RStripS(normalize_text(w)) : w \in Range(SplitWs(CommaValues(text)[i]))}
       \cup {RStripS(normalize_text(CommaValues(text)[i]))}) \ {<<>>}
    : i \in 1..Len(CommaValues(text)) }

C13_WordOverlapTokens ==
  verdict.word_level_match # <<>> =>
    verdict.word_level_match[1] =
      ((tokenize_value_set(text1) \cap tokenize_value_set(text2)) # {})

(***************************************************************************)
(* C14: the matcher predicates are symmetric: the value word-overlap, the  *)
(* subcategory fuzzy match and the category word match return for (a, b)   *)
(* what they return for (b, a).                                            *)
(***************************************************************************)
C14_MatchersSymmetric ==
  /\ verdict.word_level_match # <<>> =>
       verdict.word_level_match[1] = word_level_match(text2, text1)
  /\ verdict.fuzzy_match_subcat # <<>> =>
       verdict.fuzzy_match_subcat[1] = fuzzy_match_subcat(text2, text1)
  /\ verdict.match_cat_words # <<>> =>
       verdict.match_cat_words[1] = match_cat_words(text2, text1)
  /\ verdict.match_subcat_words # <<>> =>
       verdict.match_subcat_words[1] = match_subcat_words(text2, text1)

\* two different texts of different word counts matched by all the predicates
C14_Witness ==
  /\ text1 = t_sky_blue
  /\ text2 = t_blue
  /\ verdict.word_level_match = <<TRUE>>
  /\ verdict.fuzzy_match_subcat = <<TRUE>>
  /\ verdict.match_cat_words = <<TRUE>>
  /\ verdict.match_subcat_words = <<TRUE>>

(***************************************************************************)
(* C15: for every non-blank subcategory label w, the subcategory fuzzy     *)
(* match of w with an 's' appended against w is true.                      *)
(***************************************************************************)
C15_PluralMatches ==
  (/\ Strip(text2) # <<>>
   /\ text1 = Append(text2, "s")
   /\ verdict.fuzzy_match_subcat # <<>>) => verdict.fuzzy_match_subcat[1] = TRUE

(***************************************************************************)
(* C16: the label normalizer maps every two labels that differ only in     *)
(* case, surrounding whitespace, hyphens, underscores or internal spaces   *)
(* to the same token, and returns the empty token on a null or blank       *)
(* label.                                                                  *)
(***************************************************************************)
\* what is left of a label when the differences that do not count are taken out
label_letters(text) ==
  Lower(SelectSeq(text, LAMBDA c : c # " " /\ c # "-" /\ c # "_"))

C16_NormalizeLabel ==
  verdict.normalized # <<>> =>
    /\ label_letters(text1) = label_letters(text2) =>
         /\ verdict.normalized[1].text[1] = verdict.normalized[1].text[2]
         /\ verdict.normalized[1].dedup[1] = verdict.normalized[1].dedup[2]
    /\ Strip(text1) = <<>> =>
         /\ verdict.normalized[1].text[1] = <<>>
         /\ verdict.normalized[1].dedup[1] = <<>>
    /\ Strip(text2) = <<>> =>
         /\ verdict.normalized[1].text[2] = <<>>
         /\ verdict.normalized[1].dedup[2] = <<>>

\* "t-shirt" and "T_Shirt" normalized to the same non-empty token
C16_Witness ==
  /\ text1 = t_t_hyphen_shirt
  /\ text2 = t_T_underscore_Shirt
  /\ verdict.normalized # <<>>
  /\ verdict.normalized[1].text = <<normalize_text(t_t_space_shirt), normalize_text(t_t_space_shirt)>>
  /\ verdict.normalized[1].text[1] # <<>>

(***************************************************************************)
(* C17: for a ground-truth product entry the candidate value is looked up  *)
(* in the order exact (cat, subcat, key), then an entry whose category     *)
(* word-matches, whose key is equal and whose subcategory fuzzy-matches,   *)
(* and only then (cat, key); the first of these that gives a value wins,   *)
(* and that value is the one compared with the ground-truth value.         *)
(***************************************************************************)
\* an entry (cat, subcat, key) of the second stage for the cells c
fuzzy_entry(c, k) ==
  /\ Len(k) = 3 /\ word_level_match(c.cat, k[1]) /\ k[3] = c.key
  /\ fuzzy_match_subcat(c.subcat, k[2])

\* the second and third stage
value_fuzzy_then_cat_key(lookup, c, fuzzy) ==
  IF fuzzy # {} THEN lookup[Min(fuzzy)].v ELSE DictGet(lookup, <<c.cat, c.key>>, <<>>)

\* the three stages in the stated order
value_in_stated_order(lookup, c) ==
  IF DictGet(lookup, <<c.cat, c.subcat, c.key>>, <<>>) # <<>>
  THEN DictGet(lookup, <<c.cat, c.subcat, c.key>>, <<>>)
  ELSE value_fuzzy_then_cat_key(lookup, c,
         {i \in 1..Len(lookup) : fuzzy_entry(c, lookup[i].k) /\ lookup[i].v # <<>>})

\* the ground-truth product entries whose value word-overlaps the value found
\* in the stated order
matched_in_stated_order(fnf_df, lookup) ==
  {i \in 1..Len(fnf_df) :
     /\ Cells(fnf_df[i]).key # <<>> /\ Cells(fnf_df[i]).val # <<>>
     /\ word_level_match(Cells(fnf_df[i]).val,
                         value_in_stated_order(lookup, Cells(fnf_df[i])))}

\* every row of the table states a category, a subcategory, a key and a value
AllCellsStated(df) ==
  \A i \in 1..Len(df) :
    /\ Strip(df[i].Cat) # <<>> /\ Strip(df[i].Subcat) # <<>>
    /\ Strip(df[i].Key) # <<>> /\ Strip(df[i].Value) # <<>>

C17_LookupOrder ==
  (Done /\ AllCellsStated(gt_raw) /\ AllCellsStated(cand_raw)) => acc.product_match =
            Cardinality(matched_in_stated_order(edited_fnf_img, vlm_lookup_of(cand_df)))

(***************************************************************************)
(* C18: for every ground-truth product entry with a non-blank value,       *)
(* subcat_errors is incremented exactly when the candidate states for that *)
(* (category, key) a non-blank subcategory that does not fuzzy-match the   *)
(* ground-truth subcategory, whether the candidate's value matched,        *)
(* mismatched or was missing.                                              *)
(***************************************************************************)
\* the candidate rows vs that state the category and key of the cells f
stated_for(vs, f) ==
  {i \in 1..Len(vs) : word_level_match(f.cat, vs[i].cat) /\ vs[i].key = f.key}

\* the ground-truth product entries for which the first such candidate row
\* states a subcategory that does not match, whatever value was found
subcat_mismatches(fs, vs) ==
  {i \in 1..Len(fs) :
     /\ fs[i].key # <<>> /\ fs[i].val # <<>>
     /\ fs[i].cat # <<>> /\ fs[i].subcat # <<>>
     /\ subcat_differs(vs, stated_for(vs, fs[i]), fs[i])}

C18_SubcatErrorsIndependent ==
  Done => acc.subcat_errors =
            Cardinality(subcat_mismatches(
              List([i \in 1..Len(edited_fnf_img) |-> Cells(edited_fnf_img[i])]),
              List([i \in 1..Len(cand_df) |-> Cells(cand_df[i])])))

(***************************************************************************)
(* C19: when the candidate table holds the same (category, key) under two  *)
(* different subcategories, the (cat, key) lookup resolves to the value of *)
(* the first such row in the table's order.                                *)
(***************************************************************************)
\* the rows of vs that carry the category and key of row i
same_cat_key(vs, i) ==
  {j \in 1..Len(vs) : vs[j].cat = vs[i].cat /\ vs[j].key = vs[i].key}

\* every (cat, key) that stands under two subcategories resolves to the value of
\* the first row of that category and key
first_row_wins(lookup, vs) ==
  \A i \in 1..Len(vs) :
    (\E j \in same_cat_key(vs, i) : vs[j].subcat # vs[i].subcat) =>
    DictGet(lookup, <<vs[i].cat, vs[i].key>>, <<>>) = vs[Min(same_cat_key(vs, i))].val

C19_FirstMatchWins ==
  (Done /\ AllCellsStated(gt_raw) /\ AllCellsStated(cand_raw)) =>
         first_row_wins(vlm_lookup_of(cand_df),
                         List([i \in 1..Len(cand_df) |-> Cells(cand_df[i])]))

(***************************************************************************)
(* C20: the accuracy record computed from the candidate table after the    *)
(* synthetic rows for missing entries have been injected equals the        *)
(* accuracy record computed from the same candidate table before the       *)
(* injection, for every ground truth and every candidate table.            *)
(***************************************************************************)
C20_AccuracyUnchangedByInjection ==
  Done => acc = calculate_accuracy(CandBefore, edited_fnf_img, fnf_lookup)

(***************************************************************************)
(* C21: after missing-item synthesis, every ground-truth entry with a      *)
(* non-blank category that has no candidate counterpart (no candidate row  *)
(* with a word-matching category, a matching subcategory and the same key) *)
(* appears in the candidate table as exactly one synthetic row with a      *)
(* blank Value and the missing flag set.                                   *)
(***************************************************************************)
\* add_missing_items has run
Synthesized == pc \in {"missing", "lookup", "done"}

t_true == <<"t","r","u","e">>

\* a candidate item is a counterpart of the ground-truth item g
counterpart(g, it) ==
  /\ match_cat_words(g.cat_orig, it.cat_orig)
  /\ it.key = g.key
  /\ (g.key = <<>> \/ match_subcat_words(g.subcat_orig, it.subcat_orig))

has_counterpart(items, g) == \E i \in 1..Len(items) : counterpart(g, items[i])

\* the synthetic rows of df for the category and key of the ground-truth item g
synthetic_rows_for(df, g) ==
  {j \in 1..Len(df) :
     /\ Lower(df[j].is_missing) = t_true
     /\ Strip(df[j].Value) = <<>>
     /\ Lower(Strip(df[j].cat_for_match)) = g.cat_orig
     /\ normalize_for_compare(df[j].Key) = g.key}

missing_entry_shown_once(df, items, g) ==
  (g.cat # <<>> /\ ~has_counterpart(items, g)) =>
     Cardinality(synthetic_rows_for(df, g)) = 1

C21_MissingEntriesSynthesized ==
  Synthesized =>
    \A i \in 1..Len(edited_fnf_img) :
      missing_entry_shown_once(cand_df, vlm_items_list(CandBefore),
                               VlmItem(edited_fnf_img[i]))

(***************************************************************************)
(* C22: a synthetic missing row is flagged key-only-missing exactly when   *)
(* at least one candidate row has a word-matching category and a matching  *)
(* subcategory but none of those rows carries the entry's key; in every    *)
(* other case, every marketing entry included, it is flagged as a miss of  *)
(* the whole group.                                                        *)
(***************************************************************************)
\* the candidate items of the group of the ground-truth item g
group_items(items, g) ==
  {i \in 1..Len(items) :
     /\ match_cat_words(g.cat_orig, items[i].cat_orig)
     /\ match_subcat_words(g.subcat_orig, items[i].subcat_orig)}

\* the group is there and none of its rows carries the key
key_only_case(items, g) ==
  /\ g.key # <<>>
  /\ group_items(items, g) # {}
  /\ \A i \in group_items(items, g) : items[i].key # g.key

flagged_as_stated(df, items, g) ==
  \A j \in synthetic_rows_for(df, g) :
    (Lower(df[j].is_key_only_missing) = t_true) = key_only_case(items, g)

C22_KeyOnlyFlag ==
  Synthesized =>
    \A i \in 1..Len(edited_fnf_img) :
      flagged_as_stated(cand_df, vlm_items_list(CandBefore), VlmItem(edited_fnf_img[i]))

\* a synthetic row flagged key-only next to one flagged as a whole-group miss
\* for a marketing entry
C22_Witness ==
  /\ Synthesized
  /\ \E j \in 1..Len(cand_df) :
        /\ Lower(cand_df[j].is_missing) = t_true
        /\ Lower(cand_df[j].is_key_only_missing) = t_true
  /\ \E j \in 1..Len(cand_df) :
        /\ Lower(cand_df[j].is_missing) = t_true
        /\ cand_df[j].Key = <<>>
        /\ Lower(cand_df[j].is_key_only_missing) # t_true

(***************************************************************************)
(* C23: missing-item synthesis uses the matching rules of the accuracy     *)
(* computation: for every pair of labels its category-match and            *)
(* subcategory-match predicates return what the predicates of the accuracy *)
(* computation return.                                                     *)
(***************************************************************************)
\* the label keeps a letter when its trailing 's' are stripped
HasStem(text) == \A w \in Range(SplitWs(text)) : RStripS(normalize_text(w)) # <<>>

C23_SameMatchingRules ==
  (HasStem(text1) /\ HasStem(text2)) =>
    /\ (verdict.match_subcat_words # <<>> /\ verdict.fuzzy_match_subcat # <<>>) =>
          verdict.match_subcat_words = verdict.fuzzy_match_subcat
    /\ (verdict.match_cat_words # <<>> /\ verdict.word_level_match # <<>>) =>
          verdict.match_cat_words = verdict.word_level_match

(***************************************************************************)
(* C24: the shaped table is ordered by (category priority, marketing       *)
(* before product, subcategory, key); the priority table puts the          *)
(* marketing dimensions before the product categories, a category that is  *)
(* not in the table sorts after all recognized ones and nothing sorts      *)
(* after an unrecognized category; rows that compare equal keep their      *)
(* input order.                                                            *)
(***************************************************************************)
\* the tables have just been shaped
Shaped == pc = "sorted"

MarketingDimensions ==
  {"age group", "color tone filter", "coordination method", "gender", "skin tone",
   "pose", "hair style", "expression", "gaze direction", "fashion style", "location",
   "mood", "number of people", "overall fashion color tone", "season weather",
   "shooting composition"}

\* the sort key a shaped row shows, a row without category having priority blank
shown_key(r, blank) ==
  [cat_order |-> IF r.cat_for_match = <<>> THEN blank ELSE get_cat_order(r.cat_for_match),
   is_marketing |-> r.Key = <<>>,
   subcat_lower |-> Lower(r.subcat_for_match),
   key_lower |-> Lower(r.Key)]

\* a sorts strictly before b
key_before(a, b) ==
  \/ a.cat_order < b.cat_order
  \/ a.cat_order = b.cat_order /\ a.is_marketing /\ ~b.is_marketing
  \/ a.cat_order = b.cat_order /\ a.is_marketing = b.is_marketing
       /\ StrLess(a.subcat_lower, b.subcat_lower)
  \/ a.cat_order = b.cat_order /\ a.is_marketing = b.is_marketing
       /\ a.subcat_lower = b.subcat_lower /\ StrLess(a.key_lower, b.key_lower)

in_order(df, blank) ==
  \A p \in 1..(Len(df) - 1) :
    ~key_before(shown_key(df[p + 1], blank), shown_key(df[p], blank))

\* the positions of the value v in the column Value of df
positions(df, v) == {i \in 1..Len(df) : Lower(df[i].Value) = v}

\* two rows with the same key, whose values occur once, are in input order
ties_in_input_order(raw, df) ==
  \A p \in 1..Len(df) : \A q \in (p + 1)..Len(df) :
    (/\ shown_key(df[p], 0) = shown_key(df[q], 0)
     /\ Cardinality(positions(raw, df[p].Value)) = 1
     /\ Cardinality(positions(raw, df[q].Value)) = 1)
    => Min(positions(raw, df[p].Value)) < Min(positions(raw, df[q].Value))

priorities_in_order ==
  /\ MarketingDimensions \subseteq DOMAIN cat_order
  /\ \A m \in MarketingDimensions : \A c \in DOMAIN cat_order \ MarketingDimensions :
        cat_order[m] < cat_order[c]
  /\ \A c \in DOMAIN cat_order : cat_order[c] < get_cat_order(t_pants)

\* as stated: the categories that are not in the table, the blank one included,
\* are one last bucket
C24_OrderAsStated ==
  Shaped => /\ priorities_in_order
            /\ in_order(cand_df, get_cat_order(t_pants))
            /\ ties_in_input_order(cand_raw, cand_df)

\* as the shaper orders: the rows without a category are a bucket of their own
\* after the unrecognized categories
C24_OrderWithBlankLast ==
  Shaped => /\ priorities_in_order
            /\ in_order(cand_df, get_cat_order(t_pants) + 1)
            /\ ties_in_input_order(cand_raw, cand_df)
            /\ in_order(edited_fnf_img, get_cat_order(t_pants) + 1)

\* a row without category moved behind a recognized and an unrecognized category
C24_Witness ==
  /\ Shaped
  /\ Len(cand_df) = 3
  /\ cand_raw[1].Cat = <<>>
  /\ get_cat_order(cand_df[1].cat_for_match) < get_cat_order(t_pants)
  /\ cand_df[2].cat_for_match = t_pants
  /\ cand_df[3].cat_for_match = <<>>

(***************************************************************************)
(* C25: in every shaped table, within each contiguous run of rows with the *)
(* same filled-in (category, subcategory), exactly the first row shows the *)
(* labels in Cat/Subcat and the later rows show blanks, while the hidden   *)
(* pair of every row holds the filled-in category and subcategory (a       *)
(* displayed non-blank Cat equals the hidden category; marketing rows have *)
(* a blank subcategory in both).                                           *)
(***************************************************************************)
\* row p of df continues the run of the row above it
continues_run(df, p) ==
  /\ p > 1
  /\ df[p].cat_for_match = df[p - 1].cat_for_match
  /\ df[p].subcat_for_match = df[p - 1].subcat_for_match

labels_collapsed(df) ==
  \A p \in 1..Len(df) :
    /\ continues_run(df, p) => df[p].Cat = <<>> /\ df[p].Subcat = <<>>
    /\ ~continues_run(df, p) =>
          df[p].Cat = df[p].cat_for_match /\ df[p].Subcat = df[p].subcat_for_match
    /\ df[p].Cat # <<>> => df[p].Cat = df[p].cat_for_match
    /\ df[p].Key = <<>> => df[p].Subcat = <<>> /\ df[p].subcat_for_match = <<>>

\* the label that fills row i of a column: the last non-blank one at or above i
filled_in(col, i, above) ==
  IF above = {} THEN <<>>
  ELSE col[CHOOSE j \in above : \A k \in above : k <= j]

label_column(raw, name) ==
  List([i \in 1..Len(raw) |-> get_first_value(clean_cell(raw[i][name]))])

filled_label(raw, name, i) ==
  filled_in(label_column(raw, name), i,
            {j \in 1..i : label_column(raw, name)[j] # <<>>})

\* key, value and filled-in labels of the rows of the input table
filled_rows(raw) ==
  {<<clean_cell(raw[i].Key), clean_cell(raw[i].Value), filled_label(raw, "Cat", i),
     IF clean_cell(raw[i].Key) = <<>> THEN <<>> ELSE filled_label(raw, "Subcat", i)>>
   : i \in 1..Len(raw)}

hidden_rows(df) ==
  {<<df[p].Key, df[p].Value, df[p].cat_for_match, df[p].subcat_for_match>>
   : p \in 1..Len(df)}

C25_LabelsCollapsed ==
  Shaped => /\ labels_collapsed(cand_df)
            /\ labels_collapsed(edited_fnf_img)
            /\ hidden_rows(cand_df) = filled_rows(cand_raw)
            /\ hidden_rows(edited_fnf_img) = filled_rows(gt_raw)

\* a run of two product rows, the second filled in from the first, after a
\* marketing row
C25_Witness ==
  /\ Shaped
  /\ Len(cand_df) = 3
  /\ cand_raw[3].Cat = <<>> /\ cand_raw[3].Key # <<>>
  /\ cand_df[1].Key = <<>> /\ cand_df[1].Cat # <<>>
  /\ cand_df[2].Cat = Lower(t_outer) /\ cand_df[2].Subcat = t_jacket
  /\ cand_df[3].Cat = <<>> /\ cand_df[3].Subcat = <<>>
  /\ cand_df[3].cat_for_match = Lower(t_outer) /\ cand_df[3].subcat_for_match = t_jacket

(***************************************************************************)
(* C26: reconciling a ground truth with at least one marketing and one     *)
(* product entry against itself gives marketing_accuracy = 100,            *)
(* product_accuracy = 100, subcat_errors = 0 and no extras.                *)
(***************************************************************************)
C26_SelfReconciliationPerfect ==
  (/\ Done
   /\ cand_raw = gt_raw
   /\ MarketingEntries(edited_fnf_img) # {}
   /\ ProductEntries(edited_fnf_img) # {})
  => /\ acc.marketing_acc = <<100, 1>>
     /\ acc.product_acc = <<100, 1>>
     /\ acc.subcat_errors = 0
     /\ acc.marketing_extra = 0
     /\ acc.product_extra = 0

(***************************************************************************)
(* C27: every accuracy record satisfies 0 <= marketing_match <=            *)
(* marketing_total, 0 <= product_match <= product_total, 0 <=              *)
(* subcat_errors <= product_total, marketing_extra + product_extra <=      *)
(* number of candidate rows with a non-blank value, and the four           *)
(* percentages lie in [0, 100].                                            *)
(***************************************************************************)
\* the rational x lies in [0, 100]
Percentage(x) == x[2] > 0 /\ 0 <= x[1] /\ x[1] <= 100 * x[2]

rows_with_value(df) == {i \in 1..Len(df) : Cells(df[i]).val # <<>>}

C27_RecordBounds ==
  Done =>
    /\ 0 <= acc.marketing_match /\ acc.marketing_match <= acc.marketing_total
    /\ 0 <= acc.product_match /\ acc.product_match <= acc.product_total
    /\ 0 <= acc.subcat_errors /\ acc.subcat_errors <= acc.product_total
    /\ 0 <= acc.marketing_extra /\ 0 <= acc.product_extra
    /\ acc.marketing_extra + acc.product_extra <= Cardinality(rows_with_value(cand_df))
    /\ Percentage(acc.marketing_acc)
    /\ Percentage(acc.value_acc)
    /\ Percentage(acc.subcat_acc)
    /\ Percentage(acc.product_acc)

\* a record with a match, a subcategory error and an extra
C27_Witness ==
  /\ Done
  /\ acc.product_match > 0
  /\ acc.subcat_errors > 0
  /\ acc.marketing_extra + acc.product_extra > 0
  /\ acc.product_acc # <<0, 1>> /\ acc.product_acc # <<100, 1>>

(***************************************************************************)
(* C28: if the de-duplicated candidate table has a row with the category,  *)
(* subcategory and key of a ground-truth entry (a product entry whose      *)
(* subcategory is blank on both sides included), no synthetic missing row  *)
(* is created for that entry, and the displayed candidate table never      *)
(* holds two rows with the same normalized (category, subcategory, key).   *)
(***************************************************************************)
\* the candidate item is the ground-truth item g
same_entry(g, it) == it.cat = g.cat /\ it.subcat = g.subcat /\ it.key = g.key

present_entry_not_synthesized(df, items, g) ==
  (g.cat # <<>> /\ \E i \in 1..Len(items) : same_entry(g, items[i])) =>
     synthetic_rows_for(df, g) = {}

no_repeated_entry(df) ==
  \A i \in 1..Len(df) : \A j \in 1..Len(df) :
    DedupKey(df[i]) = DedupKey(df[j]) => i = j

C28_NoSyntheticForPresentEntry ==
  Synthesized =>
    /\ \A i \in 1..Len(edited_fnf_img) :
         present_entry_not_synthesized(cand_df, vlm_items_list(CandBefore),
                                       VlmItem(edited_fnf_img[i]))
    /\ no_repeated_entry(cand_df)


(***************************************************************************)
(* C29: the displayed candidate table and the AccuracyRecord agree on      *)
(* extras: the candidate rows with a value that are rendered as an extra   *)
(* (a green Value cell, or a whole red row of a new category group) are    *)
(* the rows counted in marketing_extra and product_extra.                  *)
(***************************************************************************)
\* the rows of the displayed table that come from the candidate and carry a value
candidate_rows_shown ==
  {j \in 1..Len(cand_df) : Lower(cand_df[j].is_missing) # t_true
                           /\ Cells(cand_df[j]).val # <<>>}

rendered_as_extra(j) ==
  styles[j].Value = "green" \/ styles[j].Cat = "red"

marketing_rendered_as_extra ==
  {j \in candidate_rows_shown : Cells(cand_df[j]).key = <<>> /\ rendered_as_extra(j)}

product_rendered_as_extra ==
  {j \in candidate_rows_shown : Cells(cand_df[j]).key # <<>> /\ rendered_as_extra(j)}

\* a table of marketing rows (category and value) and product rows with all
\* four cells stated
WellFormedRows(df) ==
  \A i \in 1..Len(df) :
    /\ Strip(df[i].Cat) # <<>> /\ Strip(df[i].Value) # <<>>
    /\ (Strip(df[i].Subcat) = <<>>) = (Strip(df[i].Key) = <<>>)

C29_ExtrasAgree ==
  (Done /\ WellFormedRows(gt_raw) /\ WellFormedRows(cand_raw))
    => /\ Cardinality(marketing_rendered_as_extra) = acc.marketing_extra
       /\ Cardinality(product_rendered_as_extra) = acc.product_extra


(***************************************************************************)
(* C30: when sort_by_category is applied again to its own output, after    *)
(* the synthetic rows are appended, every row the table had before keeps   *)
(* its hidden (category, subcategory) pair.                                *)
(***************************************************************************)
\* the synthetic rows were appended and the combined table was sorted again
Reshaped == Synthesized /\ Len(cand_df) > Len(CandBefore)

\* the row of the table before the synthesis is in the table after it, with
\* the same key, value and hidden pair
kept_with_hidden_pair(row) ==
  \E j \in 1..Len(cand_df) :
    /\ Lower(cand_df[j].is_missing) # t_true
    /\ Cells(cand_df[j]) = Cells(row)

C30_ReshapeKeepsHiddenPairs ==
  (Reshaped /\ WellFormedRows(gt_raw))
    => \A i \in 1..Len(CandBefore) : kept_with_hidden_pair(CandBefore[i])

====
